---------------------------- MODULE Spec2Model ----------------------------
(***************************************************************************)
(* Verification model of the BiPay payment backend.                        *)
(*                                                                         *)
(*   Part E  backend/app/main_enhanced.py : p2p_payment with nonce and     *)
(*           idempotency stores over the in-process dictionaries.          *)
(*   Part R  backend/app/payments/router.py : process_p2p_payment over the *)
(*           users collection (database.py), one step per await.           *)
(*   Part L  backend/app/blockchain/service.py : the hash-chained ledger.  *)
(*   Part A  backend/app/ai/service.py : the anomaly scorer.               *)
(*   Part W  backend/app/main_enhanced.py : the websocket clients.         *)
(*   Part M  blockchain/service.py : the proof-of-work search, by turns.   *)
(*   Part T  backend/app/realtime.py : the realtime manager.               *)
(*   Part H  backend/app/merchant/router.py : the merchant endpoints.      *)
(*                                                                         *)
(* Money is counted in whole currency units, time in minutes, fraud scores *)
(* in tenths.                                                              *)
(***************************************************************************)
EXTENDS Integers, Sequences, FiniteSets, TLC

VARIABLES
    \* ---- Part E: main_enhanced.py globals (lines 60-65)
    users_db,           \* user id -> account document
    fingerprints_db,    \* user id -> enrolled fingerprint
    transactions_db,    \* list of transaction records
    blockchain_db,      \* list of blocks
    nonce_cache,        \* nonce -> time of issue
    idempotency_cache,  \* idempotency key -> transaction id
    now,                \* datetime.utcnow(), minutes
    last,               \* the last request and the response it got
    nonceLog,           \* history: nonce -> [issued_at, used] for every nonce ever issued
    firstTx,            \* history: key -> transaction id of the first successful request
    screened,           \* history: key -> number of requests that reached fraud screening
    \* ---- Part L: blockchain/service.py, class Blockchain
    chain,                  \* list of Block
    pending_transactions,   \* list of Transaction
    difficulty,             \* settings.blockchain_difficulty
    tampers,                \* number of blocks rewritten behind the service's back
    \* ---- Part R: payments/router.py over database.py
    users_collection,        \* database["users"]: user id -> document
    fingerprints_collection, \* database["fingerprints"]: the enrolled user ids
    transactions_collection, \* database["transactions"]: list of records
    using_motor,             \* database._using_motor
    call,                    \* slot -> the request running in it, with its locals
    issued,                  \* number of transaction ids generated
    started,                 \* history: number of requests received
    base,                    \* history: the balances when the running group of requests began
    group,                   \* history: number of requests started since then
    \* ---- Part A: ai/service.py, the module's anomaly_service
    is_trained,              \* anomaly_service.is_trained
    model,                   \* anomaly_service.model: fitted or not, and on how many features
    \* ---- Part W: the websocket clients of main_enhanced.py
    websocket_connections,   \* list of the connected sockets
    opened,                  \* number of sockets ever accepted
    broadcast,               \* slot -> the payment awaiting in broadcast_to_websockets
    \* ---- Part M: Blockchain.mine_block while it runs
    search,                  \* the candidate block of the search in progress, and whose it is
    \* ---- Part T: realtime.py, the module's realtime_manager, and its callers
    connections,             \* realtime_manager.connections
    lock,                    \* realtime_manager.lock: 0 when free, else the task holding it
    clients,                 \* websocket -> where its websocket_transactions handler is
    casts,                   \* slot -> the broadcast call of the payment running in it
    \* ---- Part H: merchant/router.py over database.py
    merchants_collection     \* database["merchants"]: merchant id -> document

varsE == <<users_db, fingerprints_db, transactions_db, blockchain_db, nonce_cache,
           idempotency_cache, now, last, nonceLog, firstTx, screened>>

varsL == <<chain, pending_transactions, difficulty, tampers>>

varsR == <<users_collection, fingerprints_collection, transactions_collection,
           using_motor, call, issued, started, base, group>>

varsA == <<is_trained, model>>

varsW == <<websocket_connections, opened, broadcast>>

varsM == <<search>>

varsT == <<connections, lock, clients, casts>>

varsH == <<merchants_collection>>

\* the parts that only their own specifications run
varsO == <<varsM, varsT, varsH>>

vars == <<varsE, varsL, varsR, varsA, varsW, varsO>>

---------------------------------------------------------------------------
(* Bounds of the model *)
MaxNonces == 2
MaxTicks == 2
MaxBlocks == 2
MaxPending == 2
MaxTampers == 2
MaxRequests == 2
MaxSockets == 2
MaxMerchantRequests == 3
HexDigits == 2

(* Program constants *)
NonceTTL == 5
LargeAmount == 1000
HistoryCount == 5
FraudLimit == 5

Sender == "user_12345"
Recipient == "user_r"
Absent == "user_x"
StoredFp == "fp_a"

ToUsers == {Sender, Recipient, Absent}
Keys == {"k1", "k2"}
Fingerprints == {StoredFp, "fp_b"}
Hours == {3, 12}
Amounts == {100, 1200}
NonceIds == 0 .. MaxNonces

Empty == [x \in {} |-> 0]

Remove(f, k) == [x \in (DOMAIN f) \ {k} |-> f[x]]

Put(f, k, v) == [x \in (DOMAIN f) \cup {k} |-> IF x = k THEN v ELSE f[x]]

Abs(x) == IF x < 0 THEN -x ELSE x

---------------------------------------------------------------------------
(* Part E: helpers of main_enhanced.py *)

\* verify_fingerprint: similarity 0.95 on equality, else 0.2; a match is > 0.8
verify_fingerprint(stored_fp, provided_fp) == stored_fp = provided_fp

\* detect_fraud: the score in tenths
fraud_score(user_id, amount, history, hour) ==
    (IF amount > LargeAmount THEN 3 ELSE 0)
  + (IF Cardinality({i \in 1 .. Len(history) : history[i].from_user = user_id}) > HistoryCount
       THEN 2 ELSE 0)
  + (IF hour < 6 \/ hour > 23 THEN 1 ELSE 0)

detect_fraud(user_id, amount, history, hour) ==
    fraud_score(user_id, amount, history, hour) > FraudLimit

\* validate_nonce without the age check
validate_nonce_ok_no_ttl(cache, nonce, t) == nonce \in DOMAIN cache

\* validate_nonce: the verdict
validate_nonce_ok(cache, nonce, t) ==
    /\ nonce \in DOMAIN cache
    /\ ~ (t - cache[nonce] > NonceTTL)

\* validate_nonce deleting only an expired nonce
validate_nonce_store_expired_only(cache, nonce, t) ==
    IF nonce \in DOMAIN cache /\ t - cache[nonce] > NonceTTL THEN Remove(cache, nonce) ELSE cache

\* validate_nonce: the store afterwards (the nonce is deleted on both found paths)
validate_nonce_store(cache, nonce, t) ==
    IF nonce \in DOMAIN cache THEN Remove(cache, nonce) ELSE cache

\* check_idempotency that finds no key
check_idempotency_never(cache, key) == 0

\* check_idempotency: the stored transaction id, 0 for None
check_idempotency(cache, key) == IF key \in DOMAIN cache THEN cache[key] ELSE 0

\* store_idempotency that records nothing
store_idempotency_skip(cache, key, tx_id) == cache

\* store_idempotency
store_idempotency(cache, key, tx_id) == Put(cache, key, tx_id)

\* generate_transaction_id: a fresh id (uuid4), here the next unused number
generate_transaction_id(txs) == Len(txs) + 1

\* the transaction dictionary built by p2p_payment
TxRecord(tx_id, to, amount, status, recorded, score, credit) ==
    [transaction_id |-> tx_id, from_user |-> Sender, to_user |-> to, amount |-> amount,
     status |-> status, blockchain_recorded |-> recorded, ai_fraud_score |-> score,
     credit_used |-> credit, ledger_hash |-> <<>>]

\* sha256 over the canonical JSON of the transaction: collision free
TxHash(tx) == <<"sha256", tx.transaction_id, tx.from_user, tx.to_user, tx.amount, tx.status,
                tx.blockchain_recorded, tx.ai_fraud_score, tx.credit_used>>

\* add_to_blockchain: the block appended for a transaction
NewBlock(blocks, tx) ==
    [block_id |-> Len(blocks) + 1, transaction |-> tx, hash |-> TxHash(tx)]

\* a response without a fraud_score: an HTTPException, or the field left at None
NoScore == -1

\* the response of a request that stops before the funds check
Reject(code, cache, txs, scr) ==
    [code |-> code, transaction_id |-> 0, credit_used |-> FALSE, users |-> users_db,
     txs |-> txs, blocks |-> blockchain_db, nonces |-> cache, idem |-> idempotency_cache,
     passed_nonce |-> code # "INVALID_NONCE", screened |-> scr, fraud_score |-> NoScore]

\* the funds check without the credit limit
funds_check_no_limit(sender, amount) ==
    IF sender.balance - amount < 0 /\ ~ sender.credit_mode THEN "funds" ELSE "ok"

\* the funds check without the hard stop
funds_check_no_hard_stop(sender, amount) ==
    LET new_balance == sender.balance - amount IN
    IF new_balance < 0 /\ sender.credit_mode /\ Abs(new_balance) > sender.credit_limit
      THEN "limit" ELSE "ok"

\* the funds check of p2p_payment: "ok", "funds" or "limit"
funds_check(sender, amount) ==
    LET new_balance == sender.balance - amount IN
    IF new_balance < 0
      THEN IF ~ sender.credit_mode THEN "funds"
           ELSE IF Abs(new_balance) > sender.credit_limit THEN "limit" ELSE "ok"
      ELSE "ok"

\* the balance update of p2p_payment (sender and recipient may be one document)
apply_transfer(users, to, amount, credit) ==
    LET new_balance == users[Sender].balance - amount
        u0 == IF credit THEN [users EXCEPT ![Sender].credit_used = Abs(new_balance)] ELSE users
        u1 == [u0 EXCEPT ![Sender].balance = new_balance,
                         ![Sender].total_transactions = @ + 1]
    IN  [u1 EXCEPT ![to].balance = @ + amount, ![to].total_transactions = @ + 1]

\* p2p_payment from the nonce check on: the whole effect of one request; appended
\* tells whether add_to_blockchain got its block appended or took its except branch
p2p_process(key, nonce, to, amount, fp, hour, appended) ==
    LET cache   == validate_nonce_store(nonce_cache, nonce, now)
        history == SelectSeq(transactions_db, LAMBDA tx : tx.from_user = Sender)
        score   == fraud_score(Sender, amount, history, hour)
        tx_id   == generate_transaction_id(transactions_db)
        Decline(code, status) ==
            Reject(code, cache,
                   Append(transactions_db, TxRecord(tx_id, to, amount, status, FALSE, score, FALSE)),
                   TRUE)
    IN
    IF ~ validate_nonce_ok(nonce_cache, nonce, now)
      THEN Reject("INVALID_NONCE", cache, transactions_db, FALSE)
    ELSE IF to \notin DOMAIN users_db
      THEN Reject("RECIPIENT_NOT_FOUND", cache, transactions_db, FALSE)
    ELSE IF Sender \notin DOMAIN users_db
      THEN Reject("SENDER_NOT_FOUND", cache, transactions_db, FALSE)
    ELSE IF Sender \notin DOMAIN fingerprints_db
      THEN Reject("NOT_ENROLLED", cache, transactions_db, FALSE)
    ELSE IF ~ verify_fingerprint(fingerprints_db[Sender], fp)
      THEN Reject("AUTH_FAILED", cache, transactions_db, FALSE)
    ELSE IF detect_fraud(Sender, amount, history, hour)
      THEN Decline("FRAUD_DETECTED", "declined_risk")
    ELSE IF funds_check(users_db[Sender], amount) = "funds"
      THEN Decline("INSUFFICIENT_FUNDS", "declined_funds")
    ELSE IF funds_check(users_db[Sender], amount) = "limit"
      THEN Decline("CREDIT_LIMIT_EXCEEDED", "declined_limit")
    ELSE
      LET credit == users_db[Sender].balance - amount < 0
          tx0    == TxRecord(tx_id, to, amount, "confirmed", TRUE, score, credit)
          block  == NewBlock(blockchain_db, tx0)
          tx     == IF appended THEN [tx0 EXCEPT !.ledger_hash = block.hash] ELSE tx0
      IN  [code |-> "OK", transaction_id |-> tx_id, credit_used |-> credit,
           users |-> apply_transfer(users_db, to, amount, credit),
           txs |-> Append(transactions_db, tx),
           blocks |-> IF appended
                        THEN Append(blockchain_db, [block EXCEPT !.transaction = tx])
                        ELSE blockchain_db,
           nonces |-> cache,
           idem |-> store_idempotency(idempotency_cache, key, tx_id),
           passed_nonce |-> TRUE, screened |-> TRUE, fraud_score |-> score]

\* p2p_payment: the idempotency short circuit, then the rest
p2p_result(key, nonce, to, amount, fp, hour, appended) ==
    LET existing_tx_id == check_idempotency(idempotency_cache, key) IN
    IF existing_tx_id # 0
      THEN [code |-> "ALREADY_PROCESSED", transaction_id |-> existing_tx_id,
            credit_used |-> FALSE, users |-> users_db, txs |-> transactions_db,
            blocks |-> blockchain_db, nonces |-> nonce_cache, idem |-> idempotency_cache,
            passed_nonce |-> FALSE, screened |-> FALSE, fraud_score |-> NoScore]
      ELSE p2p_process(key, nonce, to, amount, fp, hour, appended)

Bump(f, k) == Put(f, k, IF k \in DOMAIN f THEN (IF f[k] < 2 THEN f[k] + 1 ELSE 2) ELSE 1)

NoRequest(op) ==
    [op |-> op, key |-> "", nonce |-> 0, code |-> "", transaction_id |-> 0,
     credit_used |-> FALSE, fraud_score |-> NoScore]

---------------------------------------------------------------------------
(* Part E: the operations *)

\* POST /api/v1/auth/nonce
get_nonce ==
    /\ Cardinality(DOMAIN nonceLog) < MaxNonces
    /\ LET nonce == Cardinality(DOMAIN nonceLog) + 1 IN
         /\ nonce_cache' = Put(nonce_cache, nonce, now)
         /\ nonceLog' = Put(nonceLog, nonce, [issued_at |-> now, used |-> FALSE])
    /\ last' = NoRequest("nonce")
    /\ UNCHANGED <<users_db, fingerprints_db, transactions_db, blockchain_db,
                   idempotency_cache, now, firstTx, screened>>
    /\ UNCHANGED <<varsL, varsR, varsA, varsW, varsO>>

\* The fields of a request that the handler reads on the path the request takes; a
\* field it never reads is left at its first value, since it changes nothing.
Reads(key, nonce, to, amount, fp, hour) ==
    LET first == to = Recipient /\ amount = 100 /\ fp = StoredFp /\ hour = 12 IN
    IF check_idempotency(idempotency_cache, key) # 0 THEN first
    ELSE IF ~ validate_nonce_ok(nonce_cache, nonce, now) THEN first
    ELSE IF to \notin DOMAIN users_db \/ Sender \notin DOMAIN users_db
            \/ Sender \notin DOMAIN fingerprints_db
      THEN amount = 100 /\ fp = StoredFp /\ hour = 12
    ELSE IF ~ verify_fingerprint(fingerprints_db[Sender], fp)
      THEN amount = 100 /\ hour = 12
    ELSE TRUE

\* POST /api/v1/payments/p2p: what one request does up to its broadcast
p2p_state(key, nonce, to, amount, fp, hour, appended) ==
      /\ LET r == p2p_result(key, nonce, to, amount, fp, hour, appended) IN
        /\ users_db' = r.users
        /\ transactions_db' = r.txs
        /\ blockchain_db' = r.blocks
        /\ nonce_cache' = r.nonces
        /\ idempotency_cache' = r.idem
        /\ last' = [op |-> "p2p", key |-> key, nonce |-> nonce, code |-> r.code,
                    transaction_id |-> r.transaction_id, credit_used |-> r.credit_used,
                    fraud_score |-> r.fraud_score, to_user |-> to,
                    fingerprint_data |-> fp]
        /\ nonceLog' = IF r.passed_nonce
                         THEN [nonceLog EXCEPT ![nonce].used = TRUE] ELSE nonceLog
        /\ firstTx' = IF r.code = "OK" /\ key \notin DOMAIN firstTx
                        THEN Put(firstTx, key, r.transaction_id) ELSE firstTx
        /\ screened' = IF r.screened THEN Bump(screened, key) ELSE screened
        /\ UNCHANGED <<fingerprints_db, now>>
        /\ UNCHANGED <<varsL, varsR, varsA, varsO>>

\* POST /api/v1/payments/p2p while no client is connected: the broadcast sends nothing
p2p_effect(key, nonce, to, amount, fp, hour, appended) ==
    /\ p2p_state(key, nonce, to, amount, fp, hour, appended)
    /\ UNCHANGED varsW

\* POST /api/v1/payments/p2p: one request
p2p_request(key, nonce, to, amount, fp, hour) ==
    /\ Reads(key, nonce, to, amount, fp, hour)
    /\ p2p_effect(key, nonce, to, amount, fp, hour, TRUE)

\* any request
p2p_payment ==
    \E key \in Keys, nonce \in NonceIds, to \in ToUsers, amount \in Amounts,
       fp \in Fingerprints, hour \in Hours :
      p2p_request(key, nonce, to, amount, fp, hour)

\* a request for 100 at noon, to an existing or a missing recipient
p2p_payment_100 ==
    \E key \in Keys, nonce \in NonceIds, to \in {Recipient, Absent}, fp \in Fingerprints :
      p2p_request(key, nonce, to, 100, fp, 12)

\* a request for 100 at noon with either fingerprint sample, whatever the recipient
p2p_payment_sample ==
    \E key \in Keys, nonce \in NonceIds, to \in {Recipient, Absent}, fp \in Fingerprints :
      p2p_effect(key, nonce, to, 100, fp, 12, TRUE)

\* a request for 100 at noon by the enrolled sender, the block appended or not
p2p_payment_append ==
    \E key \in Keys, nonce \in NonceIds, appended \in BOOLEAN :
      p2p_effect(key, nonce, Recipient, 100, StoredFp, 12, appended)

\* the clock advances, one nonce lifetime at a time
Tick ==
    /\ now < MaxTicks * NonceTTL
    /\ now' = now + NonceTTL
    /\ last' = NoRequest("tick")
    /\ UNCHANGED <<users_db, fingerprints_db, transactions_db, blockchain_db, nonce_cache,
                   idempotency_cache, nonceLog, firstTx, screened>>
    /\ UNCHANGED <<varsL, varsR, varsA, varsW, varsO>>

Account(balance, credit_mode, credit_limit) ==
    [balance |-> balance, credit_mode |-> credit_mode, credit_limit |-> credit_limit,
     total_transactions |-> 0, credit_used |-> 0]

\* the accounts the process is started with: none, or the demo sender and a recipient
SeedUsers ==
    {Empty}
    \cup { (Recipient :> Account(500, FALSE, 0)) }
    \cup { (Sender :> Account(b, cm, IF cm THEN 150 ELSE 0)) @@ (Recipient :> Account(500, FALSE, 0)) :
             b \in {50, 1300}, cm \in BOOLEAN }

\* the request slots of the main application: at most two requests are in flight
Slots == {1, 2}

\* a slot that has run no request yet
IdleCall ==
    [pc |-> "idle", sender_user_id |-> "", to_user |-> "", amount |-> 0,
     sender_balance |-> 0, recipient_balance |-> 0, transaction_id |-> 0,
     is_authenticated |-> "unknown", is_anomalous |-> "unknown", status |-> "",
     debited |-> FALSE, credited |-> FALSE]

\* AnomalyDetectionService.__init__: an IsolationForest that has not been fitted
Unfitted == [fitted |-> FALSE, n_features |-> 0]

\* a slot in which no payment is broadcasting
NoBroadcast ==
    [pc |-> "idle", targets |-> <<>>, key |-> "", nonce |-> 0, code |-> "",
     transaction_id |-> 0]

\* no websocket client has connected
NoSockets ==
    /\ websocket_connections = <<>>
    /\ opened = 0
    /\ broadcast = [s \in Slots |-> NoBroadcast]

\* a payment that has not reached realtime_manager.broadcast
NoCast == [pc |-> "idle", next |-> 0, to_remove |-> <<>>, before |-> <<>>]

\* no proof-of-work search is running
NoSearch == [pc |-> "idle", slot |-> 0, block |-> <<>>]

\* the parts that only their own specifications run are at rest
NoOthers ==
    /\ search = NoSearch
    /\ connections = <<>>
    /\ lock = 0
    /\ clients = [ws \in 1 .. MaxSockets |-> "new"]
    /\ casts = [b \in Slots |-> NoCast]
    /\ merchants_collection = Empty

\* Part R is not running
NoRouter ==
    /\ users_collection = Empty
    /\ fingerprints_collection = {}
    /\ transactions_collection = <<>>
    /\ using_motor = FALSE
    /\ call = [s \in Slots |-> IdleCall]
    /\ issued = 0
    /\ started = 0
    /\ base = Empty
    /\ group = 0
    /\ is_trained = FALSE
    /\ model = Unfitted

\* Part L is not running
NoLedger ==
    /\ chain = <<>>
    /\ pending_transactions = <<>>
    /\ difficulty = 0
    /\ tampers = 0

InitE ==
    /\ NoLedger
    /\ NoRouter
    /\ NoSockets
    /\ NoOthers
    /\ users_db \in SeedUsers
    /\ fingerprints_db \in {Empty, (Sender :> StoredFp)}
    /\ transactions_db = <<>>
    /\ blockchain_db = <<>>
    /\ nonce_cache = Empty
    /\ idempotency_cache = Empty
    /\ now = 0
    /\ last = NoRequest("start")
    /\ nonceLog = Empty
    /\ firstTx = Empty
    /\ screened = Empty

\* requests of every shape, all within the first minute
NextE == get_nonce \/ p2p_payment

SpecEnhanced == InitE /\ [][NextE]_vars

\* requests of one shape by an enrolled hard-stop sender, while time passes
InitNonce ==
    /\ InitE
    /\ Sender \in DOMAIN users_db /\ ~ users_db[Sender].credit_mode
    /\ Sender \in DOMAIN fingerprints_db

NextNonce == get_nonce \/ p2p_payment_100 \/ Tick

SpecNonce == InitNonce /\ [][NextNonce]_vars

\* the same while the clock keeps running and requests keep arriving
SpecNonceFair ==
    /\ InitNonce
    /\ [][NextNonce]_vars
    /\ WF_vars(Tick)
    /\ WF_vars(p2p_payment_100)

\* the sender's earlier requests, all declined for lack of funds
Declined(n) ==
    [i \in 1 .. n |-> TxRecord(i, Recipient, 100, "declined_funds", FALSE, 0, FALSE)]

\* a hard-stop sender with 50 has asked six times for 100 at noon;
\* the six earlier requests are on record when the window under study opens
InitHistory ==
    /\ NoLedger
    /\ NoRouter
    /\ NoSockets
    /\ NoOthers
    /\ users_db = (Sender :> Account(50, FALSE, 0)) @@ (Recipient :> Account(500, FALSE, 0))
    /\ fingerprints_db = (Sender :> StoredFp)
    /\ transactions_db = Declined(HistoryCount + 1)
    /\ blockchain_db = <<>>
    /\ nonce_cache = Empty
    /\ idempotency_cache = Empty
    /\ now = 0
    /\ last = NoRequest("start")
    /\ nonceLog = Empty
    /\ firstTx = Empty
    /\ screened = Empty

SpecFraud == InitHistory /\ [][NextE]_vars

\* requests of an enrolled sender that differ in sample and recipient
NextSample == get_nonce \/ p2p_payment_sample

SpecSample == InitNonce /\ [][NextSample]_vars

\* payments of an enrolled sender while the append to blockchain_db may fail
NextAppend == get_nonce \/ p2p_payment_append

SpecAppend == InitNonce /\ [][NextAppend]_vars

---------------------------------------------------------------------------
(* Part W: the websocket clients of main_enhanced.py and the broadcast of a payment *)

InList(list, x) == \E i \in 1 .. Len(list) : list[i] = x

\* list.remove(x) on a list that holds x once
remove(list, x) == SelectSeq(list, LAMBDA y : y # x)

\* websocket_endpoint: a client is accepted and added to the list
websocket_accept ==
    /\ opened < MaxSockets
    /\ opened' = opened + 1
    /\ websocket_connections' = Append(websocket_connections, opened + 1)
    /\ UNCHANGED <<broadcast, varsE, varsL, varsR, varsA, varsO>>

\* websocket_endpoint: receive_text raises WebSocketDisconnect, the socket is removed
websocket_disconnect ==
    /\ \E websocket \in 1 .. opened :
         /\ InList(websocket_connections, websocket)
         /\ websocket_connections' = remove(websocket_connections, websocket)
    /\ UNCHANGED <<opened, broadcast, varsE, varsL, varsR, varsA, varsO>>

\* a request for 100 at noon by the enrolled sender, run up to its first await: the
\* send to the first connected client. A request that is declined, or replayed, or
\* finds no client, has returned.
p2p_payment_begin(s) ==
    /\ broadcast[s].pc # "sending"
    /\ s = 2 => broadcast[1].pc = "sending"
    /\ \E key \in Keys, nonce \in NonceIds :
         /\ p2p_state(key, nonce, Recipient, 100, StoredFp, 12, TRUE)
         /\ LET awaits == last'.code = "OK" /\ websocket_connections # <<>>
                 mine == [pc |-> IF awaits THEN "sending"
                                 ELSE IF last'.code \in {"OK", "ALREADY_PROCESSED"}
                                   THEN "returned" ELSE "declined",
                          targets |-> IF awaits THEN websocket_connections ELSE <<>>,
                          key |-> key, nonce |-> nonce, code |-> last'.code,
                          transaction_id |-> last'.transaction_id]
             IN  broadcast' = [t \in Slots |->
                                 IF t = s THEN mine
                                 ELSE IF broadcast[t].pc = "sending" THEN broadcast[t]
                                 ELSE NoBroadcast]
    /\ UNCHANGED <<websocket_connections, opened>>

\* broadcast_to_websockets, one turn of its loop: send_text to the next socket of the
\* copy, and on any failure websocket_connections.remove, which raises when the
\* socket is no longer in the list
send_text(s) ==
    /\ broadcast[s].pc = "sending"
    /\ LET websocket == Head(broadcast[s].targets)
           rest == Tail(broadcast[s].targets)
           listed == InList(websocket_connections, websocket)
           next == [broadcast EXCEPT ![s].targets = rest,
                                     ![s].pc = IF rest = <<>> THEN "returned" ELSE "sending"]
       IN  \E sent \in (IF listed THEN BOOLEAN ELSE {FALSE}) :
             IF sent
               THEN /\ broadcast' = next
                    /\ websocket_connections' = websocket_connections
             ELSE IF listed
               THEN /\ broadcast' = next
                    /\ websocket_connections' = remove(websocket_connections, websocket)
             ELSE /\ broadcast' = [broadcast EXCEPT ![s].pc = "raised", ![s].targets = <<>>]
                  /\ websocket_connections' = websocket_connections
    /\ UNCHANGED <<opened, varsE, varsL, varsR, varsA, varsO>>

\* payments of an enrolled sender while clients connect and disconnect
NextEvents ==
    \/ get_nonce
    \/ websocket_accept
    \/ websocket_disconnect
    \/ \E s \in Slots : p2p_payment_begin(s)
    \/ \E s \in Slots : send_text(s)

SpecEvents == InitNonce /\ [][NextEvents]_vars

---------------------------------------------------------------------------
(* Part E: the claims *)

\* a step of p2p_payment leaves its request and response in last'
Replayed == last'.op = "p2p" /\ last'.code = "ALREADY_PROCESSED"

\* C1: once a request with idempotency key k has succeeded with transaction id T, every
\* later request with key k (any payload, any nonce) returns T and leaves the balances,
\* transactions_db, blockchain_db and the nonce store as they were.
C1_IdempotentReplay ==
    [][ \A k \in DOMAIN firstTx :
          (last'.op = "p2p" /\ last'.key = k) =>
             /\ last'.code = "ALREADY_PROCESSED"
             /\ last'.transaction_id = firstTx[k]
             /\ users_db' = users_db
             /\ transactions_db' = transactions_db
             /\ blockchain_db' = blockchain_db
             /\ nonce_cache' = nonce_cache ]_vars

\* C1 witness: a replay that presented a still valid nonce got the first transaction id
C1_Witness ==
    /\ last.op = "p2p" /\ last.code = "ALREADY_PROCESSED"
    /\ last.key \in DOMAIN firstTx /\ last.transaction_id = firstTx[last.key]
    /\ last.nonce \in DOMAIN nonce_cache
    /\ Len(transactions_db) = 1

\* C2: for each idempotency key at most one request executes the steps after the
\* idempotency check (fraud screening, funds check, creation of a record), whatever the
\* outcome of the first request with that key.
C2_AtMostOncePerKey == \A k \in DOMAIN screened : screened[k] <= 1

C4_NonceValidity ==
    [][ (last'.op = "p2p" /\ last'.code # "ALREADY_PROCESSED") =>
          LET n == last'.nonce
              accepted == last'.code # "INVALID_NONCE" IN
          /\ accepted => /\ n \in DOMAIN nonceLog
                         /\ ~ nonceLog[n].used
                         /\ now - nonceLog[n].issued_at <= NonceTTL
                         /\ n \notin DOMAIN nonce_cache'
          /\ n \notin DOMAIN nonceLog => ~ accepted
          /\ (n \in DOMAIN nonceLog /\ now - nonceLog[n].issued_at > NonceTTL)
                => (~ accepted /\ n \notin DOMAIN nonce_cache') ]_vars

\* C4 witness: an issued, never used nonce was presented after its TTL, rejected and removed
C4_Witness ==
    /\ last.op = "p2p" /\ last.code = "INVALID_NONCE"
    /\ last.nonce \in DOMAIN nonceLog /\ ~ nonceLog[last.nonce].used
    /\ now - nonceLog[last.nonce].issued_at > NonceTTL
    /\ last.nonce \notin DOMAIN nonce_cache

\* the record a step of p2p_payment appended after its funds check, if it did
FundsChecked ==
    /\ Len(transactions_db') = Len(transactions_db) + 1
    /\ transactions_db'[Len(transactions_db')].status # "declined_risk"

NewTx == transactions_db'[Len(transactions_db')]

\* C7: for a credit-mode sender whose balance minus the amount is negative the transfer
\* proceeds iff the deficit does not exceed credit_limit; then the response and the record
\* carry credit_used = true, otherwise the request is declined with balances unchanged;
\* a credit-mode sender's balance is never below -credit_limit.
C7_Overdraft ==
    /\ [] (Sender \in DOMAIN users_db /\ users_db[Sender].credit_mode
             => users_db[Sender].balance >= - users_db[Sender].credit_limit)
    /\ [][ ( /\ FundsChecked
             /\ users_db[Sender].credit_mode
             /\ users_db[Sender].balance - NewTx.amount < 0 )
           => IF NewTx.amount - users_db[Sender].balance <= users_db[Sender].credit_limit
                THEN /\ last'.code = "OK" /\ last'.credit_used
                     /\ NewTx.status = "confirmed" /\ NewTx.credit_used
                     /\ users_db'[Sender].balance < 0 \/ NewTx.to_user = Sender
                ELSE /\ last'.code = "CREDIT_LIMIT_EXCEEDED"
                     /\ NewTx.status = "declined_limit"
                     /\ users_db' = users_db ]_vars

\* C7 witness: a transfer on credit took the sender exactly to -credit_limit
C7_Witness ==
    /\ last.op = "p2p" /\ last.code = "OK" /\ last.credit_used
    /\ users_db[Sender].credit_mode
    /\ users_db[Sender].balance = - users_db[Sender].credit_limit
    /\ users_db[Sender].credit_limit > 0

---------------------------------------------------------------------------
(* Part L: blockchain/service.py.  A hash is modelled by its first HexDigits hex      *)
(* digits, which is all that the proof-of-work test reads, together with the hashed  *)
(* content itself, so that two different contents never have the same hash.          *)

MiningReward == 10

Min(a, b) == IF a < b THEN a ELSE b

Pow16(n) == IF n = 0 THEN 1 ELSE IF n = 1 THEN 16 ELSE IF n = 2 THEN 256 ELSE 4096

\* the strings "" and "0"
EmptyHash == [digits |-> <<>>, pre |-> <<>>]
ZeroString == [digits |-> <<0>>, pre |-> <<>>]

HashNum(h) ==
    LET n == Len(h.digits)
        F[i \in 0 .. n] == IF i = 0 THEN 0 ELSE F[i - 1] * 16 + h.digits[i]
    IN  F[n]

TxSum(txs) ==
    LET F[i \in 0 .. Len(txs)] ==
          IF i = 0 THEN 0
          ELSE F[i - 1] * 3 + txs[i].amount * 7 + txs[i].transaction_id * 5 + txs[i].timestamp
    IN  F[Len(txs)]

\* the leading hex digits of sha256 over the block's JSON
Digest(block) ==
    ( 89 + block.index * 31 + block.timestamp * 17 + TxSum(block.transactions) * 29
      + HashNum(block.previous_hash) * 11 + block.nonce * 13 ) % Pow16(HexDigits)

\* Blockchain.calculate_hash
calculate_hash(block) ==
    LET digest == Digest(block) IN
    [digits |-> [i \in 1 .. HexDigits |-> (digest \div Pow16(HexDigits - i)) % 16],
     pre |-> <<block.index, block.timestamp, block.transactions, block.previous_hash,
               block.nonce>>]

\* hash[:d] == "0" * d
HasPrefix(h, d) ==
    SubSeq(h.digits, 1, Min(d, Len(h.digits))) = [i \in 1 .. d |-> 0]

\* Blockchain.create_genesis_block
GenesisBlock(t) ==
    LET b == [index |-> 0, timestamp |-> t, transactions |-> <<>>,
              previous_hash |-> ZeroString, nonce |-> 0, hash |-> EmptyHash]
    IN  [b EXCEPT !.hash = calculate_hash(b)]

\* Blockchain.mine_block: raise the nonce until the hash has the prefix, that is, stop at
\* the first nonce above the block's whose hash has it
mine_block(block, d) ==
    IF HasPrefix(block.hash, d) THEN block
    ELSE LET Try(n) == [block EXCEPT !.nonce = n]
             hits == { n \in block.nonce + 1 .. block.nonce + Pow16(HexDigits) :
                         HasPrefix(calculate_hash(Try(n)), d) }
             nonce == CHOOSE n \in hits : \A m \in hits : n <= m
         IN  [Try(nonce) EXCEPT !.hash = calculate_hash(Try(nonce))]

\* _validate_transaction looking for the id among the pending transactions as well
validate_transaction_pending_too(blocks, tx) ==
    /\ tx.from_user # "" /\ tx.to_user # "" /\ tx.amount > 0 /\ tx.transaction_id # 0
    /\ \A i \in 1 .. Len(blocks) : \A j \in 1 .. Len(blocks[i].transactions) :
          blocks[i].transactions[j].transaction_id # tx.transaction_id
    /\ \A j \in 1 .. Len(pending_transactions) :
          pending_transactions[j].transaction_id # tx.transaction_id

\* Blockchain._validate_transaction
validate_transaction(blocks, tx) ==
    /\ tx.from_user # "" /\ tx.to_user # "" /\ tx.amount > 0 /\ tx.transaction_id # 0
    /\ \A i \in 1 .. Len(blocks) : \A j \in 1 .. Len(blocks[i].transactions) :
          blocks[i].transactions[j].transaction_id # tx.transaction_id

\* mine_pending_transactions linking every new block to the genesis block
mined_block_on_genesis(blocks, pending, d, t) ==
    LET reward == [from_user |-> "system", to_user |-> "system", amount |-> MiningReward,
                   transaction_type |-> "mining_reward", timestamp |-> t,
                   transaction_id |-> -(t + 1)]
        new_block == [index |-> Len(blocks), timestamp |-> t,
                      transactions |-> pending \o <<reward>>,
                      previous_hash |-> blocks[1].hash,
                      nonce |-> 0, hash |-> EmptyHash]
    IN  mine_block(new_block, d)

\* the block formed by Blockchain.mine_pending_transactions
mined_block(blocks, pending, d, t) ==
    LET reward == [from_user |-> "system", to_user |-> "system", amount |-> MiningReward,
                   transaction_type |-> "mining_reward", timestamp |-> t,
                   transaction_id |-> -(t + 1)]
        new_block == [index |-> Len(blocks), timestamp |-> t,
                      transactions |-> pending \o <<reward>>,
                      previous_hash |-> blocks[Len(blocks)].hash,
                      nonce |-> 0, hash |-> EmptyHash]
    IN  mine_block(new_block, d)

\* is_chain_valid without the comparison of the stored hash with the recomputed one
RECURSIVE chain_valid_from_no_rehash(_, _, _)
chain_valid_from_no_rehash(blocks, d, i) ==
    IF i > Len(blocks) THEN TRUE
    ELSE IF blocks[i].previous_hash # blocks[i - 1].hash THEN FALSE
    ELSE IF ~ HasPrefix(blocks[i].hash, d) THEN FALSE
    ELSE chain_valid_from_no_rehash(blocks, d, i + 1)

\* Blockchain.is_chain_valid, from block i on
RECURSIVE chain_valid_from(_, _, _)
chain_valid_from(blocks, d, i) ==
    IF i > Len(blocks) THEN TRUE
    ELSE IF blocks[i].hash # calculate_hash(blocks[i]) THEN FALSE
    ELSE IF blocks[i].previous_hash # blocks[i - 1].hash THEN FALSE
    ELSE IF ~ HasPrefix(blocks[i].hash, d) THEN FALSE
    ELSE chain_valid_from(blocks, d, i + 1)

\* Blockchain.is_chain_valid: range(1, len(chain)) is the positions 2 .. Len here
is_chain_valid(blocks, d) == chain_valid_from(blocks, d, 2)

\* the transactions handed to the ledger
LedgerTx(id, t) ==
    [from_user |-> "alice", to_user |-> "bob", amount |-> 20 * id,
     transaction_type |-> "p2p", timestamp |-> t, transaction_id |-> id]

---------------------------------------------------------------------------
(* Part L: the operations *)

\* Blockchain.add_transaction
add_transaction ==
    \E id \in 1 .. 2 :
      LET tx == LedgerTx(id, now) IN
        /\ Len(pending_transactions) < MaxPending
        /\ pending_transactions' =
             IF validate_transaction(chain, tx) THEN Append(pending_transactions, tx)
             ELSE pending_transactions
        /\ UNCHANGED <<chain, difficulty, tampers, varsE, varsR, varsA, varsW, varsO>>

\* Blockchain.mine_pending_transactions
mine_pending_transactions ==
    /\ Len(chain) <= MaxBlocks
    /\ IF pending_transactions = <<>>
         THEN UNCHANGED <<chain, pending_transactions>>
         ELSE /\ chain' = Append(chain, mined_block(chain, pending_transactions, difficulty, now))
              /\ pending_transactions' = <<>>
    /\ UNCHANGED <<difficulty, tampers, varsE, varsR, varsA, varsW, varsO>>

\* time passes between two calls
LedgerTick ==
    /\ now < MaxTicks
    /\ now' = now + 1
    /\ UNCHANGED <<users_db, fingerprints_db, transactions_db, blockchain_db, nonce_cache,
                   idempotency_cache, last, nonceLog, firstTx, screened>>
    /\ UNCHANGED <<varsL, varsR, varsA, varsW, varsO>>

\* the ways to rewrite one stored block without mining it again
Rewritten(b, prev) ==
    { [b EXCEPT !.transactions[j].amount = @ + 1] : j \in 1 .. Len(b.transactions) }
    \cup { [b EXCEPT !.nonce = @ + 1], [b EXCEPT !.timestamp = @ + 1] }
    \cup { [b EXCEPT !.hash = calculate_hash(b)] }
    \cup { [b EXCEPT !.previous_hash = h] : h \in {prev, ZeroString} }

\* somebody rewrites a block of the chain held in memory
Tamper ==
    /\ tampers < MaxTampers
    /\ \E i \in 1 .. Len(chain) :
         \E b \in Rewritten(chain[i], IF i > 1 THEN chain[i - 1].hash ELSE ZeroString) :
            /\ b # chain[i]
            /\ chain' = [chain EXCEPT ![i] = b]
    /\ tampers' = tampers + 1
    /\ UNCHANGED <<pending_transactions, difficulty, varsE, varsR, varsA, varsW, varsO>>

\* Part E is not running
NoEnhanced ==
    /\ users_db = Empty
    /\ fingerprints_db = Empty
    /\ transactions_db = <<>>
    /\ blockchain_db = <<>>
    /\ nonce_cache = Empty
    /\ idempotency_cache = Empty
    /\ last = NoRequest("start")
    /\ nonceLog = Empty
    /\ firstTx = Empty
    /\ screened = Empty
    /\ NoSockets
    /\ NoOthers

\* Blockchain.__init__
InitL ==
    /\ NoEnhanced
    /\ NoRouter
    /\ now = 0
    /\ difficulty \in 0 .. 2
    /\ chain = <<GenesisBlock(now)>>
    /\ pending_transactions = <<>>
    /\ tampers = 0

NextL == add_transaction \/ mine_pending_transactions \/ LedgerTick

SpecLedger == InitL /\ [][NextL]_vars

NextTamper == add_transaction \/ mine_pending_transactions \/ Tamper

SpecTamper == InitL /\ [][NextTamper]_vars

---------------------------------------------------------------------------
(* Part L: the claims *)

HashesMatch(first) ==
    \A i \in first .. Len(chain) : chain[i].hash = calculate_hash(chain[i])

Linked == \A i \in 2 .. Len(chain) : chain[i].previous_hash = chain[i - 1].hash

Sealed(first) == \A i \in first .. Len(chain) : HasPrefix(chain[i].hash, difficulty)

\* C10: is_chain_valid() is true iff every block, the genesis block included, has its
\* recomputed hash, every block after the first is linked to its predecessor, and every
\* block's hash, the genesis block's included, has the configured zero prefix.
C10_ValidIffAllBlocks ==
    is_chain_valid(chain, difficulty) <=> (HashesMatch(1) /\ Linked /\ Sealed(1))

\* the chains that differ from the stored one in the amount of one committed transaction
AmountFlips ==
    UNION { { [chain EXCEPT ![i].transactions[j].amount = @ + 1] :
                j \in 1 .. Len(chain[i].transactions) } : i \in 1 .. Len(chain) }

\* C11: when the amount of one transaction in a committed block of a chain produced by
\* add_transaction and mine_pending_transactions is changed, without mining the block
\* again, is_chain_valid() returns false.
C11_TamperEvident ==
    [][ (tampers = 0 /\ tampers' = 1 /\ chain' \in AmountFlips)
          => ~ is_chain_valid(chain', difficulty) ]_vars

\* C11 witness: a mined and linked chain in which one amount was changed is rejected
C11_Witness ==
    /\ tampers = 1 /\ difficulty >= 1 /\ Len(chain) >= 2
    /\ \E i \in 2 .. Len(chain) : \E j \in 1 .. Len(chain[i].transactions) :
          chain[i].transactions[j].amount \notin {20, 40, MiningReward}
    /\ Linked /\ Sealed(2)
    /\ ~ is_chain_valid(chain, difficulty)

\* C12: after any sequence of add_transaction and mine_pending_transactions calls, chain[0]
\* is the genesis block with previous_hash "0", every block's index is its position, every
\* later block's previous_hash is its predecessor's hash, and the chain changes only by
\* appending one block at its end.
C12_ChainLinkage ==
    /\ [] ( /\ Len(chain) >= 1
            /\ chain[1].previous_hash = ZeroString
            /\ chain[1].transactions = <<>>
            /\ \A i \in 1 .. Len(chain) : chain[i].index = i - 1
            /\ Linked )
    /\ [][ \/ chain' = chain
           \/ /\ Len(chain') = Len(chain) + 1
              /\ SubSeq(chain', 1, Len(chain)) = chain ]_vars

\* C12 witness: two blocks were mined on top of the genesis block
C12_Witness ==
    /\ tampers = 0 /\ Len(chain) = 3 /\ difficulty >= 1
    /\ chain[3].previous_hash = chain[2].hash
    /\ chain[2].previous_hash = chain[1].hash
    /\ chain[2].hash # chain[1].hash

\* C13: for every difficulty d >= 0, every block that mine_pending_transactions appended
\* has a stored hash equal to the hash recomputed from its fields, and that hash starts
\* with d zero hex characters.
C13_SealedBlocks ==
    \A i \in 2 .. Len(chain) :
       /\ chain[i].hash = calculate_hash(chain[i])
       /\ HasPrefix(chain[i].hash, difficulty)

---------------------------------------------------------------------------
(* Part R: payments/router.py, process_p2p_payment over database.py.        *)
(* Every await of a database operation is one step.  With Motor another     *)
(* request may run between two steps and an operation may raise; with the   *)
(* in-memory MockDatabase no await suspends, so a request runs to its end   *)
(* before the next one starts, and no operation raises.                     *)

AutoMineAt == 5

UserA == "user_a"
UserB == "user_b"
UserC == "user_c"
Senders == {UserA, UserB, UserC}
Payees == {UserA, UserB, Absent}
PayAmounts == {40}

UserDoc(balance) == [balance |-> balance, total_transactions |-> 0]

\* the balance field of every stored user
Balances(users) == [u \in DOMAIN users |-> users[u].balance]

\* an awaited database operation returns; over Motor it may raise instead
Storage == IF using_motor THEN BOOLEAN ELSE {TRUE}

InFlight(s) == call[s].pc \notin {"idle", "done"}

\* the request in slot s ends with the given response
End(s, status) == [call EXCEPT ![s].pc = "done", ![s].status = status]

\* update_one taking the $inc branch first, so that $set is skipped when both are given
update_one_inc_first(users, id, balance, inc) ==
    IF id \notin DOMAIN users THEN users
    ELSE IF inc THEN [users EXCEPT ![id].total_transactions = @ + 1]
    ELSE [users EXCEPT ![id].balance = balance]

\* MockCollection.update_one / Motor update_one with $set balance and, when inc, $inc
\* total_transactions: the mock applies $set and skips $inc
update_one(users, id, balance, inc) ==
    IF id \notin DOMAIN users THEN users
    ELSE [users EXCEPT ![id].balance = balance,
                       ![id].total_transactions = IF inc /\ using_motor THEN @ + 1 ELSE @]

\* the record process_p2p_payment inserts
P2PRecord(c, status, recorded) ==
    [transaction_id |-> c.transaction_id, from_user |-> c.sender_user_id,
     to_user |-> c.to_user, amount |-> c.amount, transaction_type |-> "p2p",
     status |-> status, is_flagged |-> c.is_anomalous = "yes",
     blockchain_recorded |-> recorded]

\* BlockchainService.add_transaction mining only once more than five are pending
service_add_transaction_late(blocks, pending, d, tx, t) ==
    LET success == validate_transaction(blocks, tx)
        pending1 == IF success THEN Append(pending, tx) ELSE pending
    IN  IF success /\ Len(pending1) > AutoMineAt
          THEN [success |-> TRUE, pending |-> <<>>,
                chain |-> Append(blocks, mined_block(blocks, pending1, d, t))]
          ELSE [success |-> success, pending |-> pending1, chain |-> blocks]

\* BlockchainService.add_transaction: append to pending, mine at five pending
service_add_transaction(blocks, pending, d, tx, t) ==
    LET success == validate_transaction(blocks, tx)
        pending1 == IF success THEN Append(pending, tx) ELSE pending
    IN  IF success /\ Len(pending1) >= AutoMineAt
          THEN [success |-> TRUE, pending |-> <<>>,
                chain |-> Append(blocks, mined_block(blocks, pending1, d, t))]
          ELSE [success |-> success, pending |-> pending1, chain |-> blocks]

RLedgerFrame == UNCHANGED <<varsE, varsL, varsA, varsW, varsO>>

EFrame == UNCHANGED <<users_db, fingerprints_db, transactions_db, blockchain_db, nonce_cache,
                      idempotency_cache, now, nonceLog, firstTx, screened>>

\* a caller uses BlockchainService.add_transaction directly
add_transaction_call ==
    /\ Len(chain) <= MaxBlocks
    /\ \E id \in 1 .. 2 :
         LET res == service_add_transaction(chain, pending_transactions, difficulty,
                                            LedgerTx(id, now), now)
         IN  /\ chain' = res.chain
             /\ pending_transactions' = res.pending
             /\ last' = [NoRequest("add_transaction") EXCEPT
                           !.code = IF res.success THEN "accepted" ELSE "rejected",
                           !.transaction_id = id]
    /\ EFrame
    /\ UNCHANGED <<difficulty, tampers, varsR, varsA, varsW, varsO>>

\* mine_block without the test for an empty pending list
service_mine_block_always ==
    /\ Len(chain) <= MaxBlocks
    /\ chain' = Append(chain, mined_block(chain, pending_transactions, difficulty, now))
    /\ pending_transactions' = <<>>
    /\ last' = [NoRequest("mine_block") EXCEPT !.code = "block"]
    /\ EFrame
    /\ UNCHANGED <<difficulty, tampers, varsR, varsA, varsW, varsO>>

\* BlockchainService.mine_block: Blockchain.mine_pending_transactions and what it returns
service_mine_block ==
    /\ Len(chain) <= MaxBlocks
    /\ IF pending_transactions = <<>>
         THEN UNCHANGED <<chain, pending_transactions>>
         ELSE /\ chain' = Append(chain, mined_block(chain, pending_transactions, difficulty, now))
              /\ pending_transactions' = <<>>
    /\ last' = [NoRequest("mine_block") EXCEPT
                  !.code = IF pending_transactions = <<>> THEN "none" ELSE "block"]
    /\ EFrame
    /\ UNCHANGED <<difficulty, tampers, varsR, varsA, varsW, varsO>>

\* Blockchain.add_transaction: the value returned and the pending list left
blockchain_add(blocks, pending, tx) ==
    IF validate_transaction(blocks, tx)
      THEN [success |-> TRUE, pending |-> Append(pending, tx)]
      ELSE [success |-> FALSE, pending |-> pending]

\* the transactions a caller may hand over: fields empty or not, amounts of either sign
FieldChoices ==
    [from_user : {"alice", ""}, to_user : {"bob", ""}, amount : {-5, 0, 20},
     transaction_type : {"p2p"}, timestamp : {0}, transaction_id : 0 .. 2]

\* Blockchain.add_transaction with a transaction of any shape
add_transaction_any ==
    /\ Len(pending_transactions) < MaxPending
    /\ \E tx \in FieldChoices :
         LET res == blockchain_add(chain, pending_transactions, tx) IN
           /\ pending_transactions' = res.pending
           /\ last' = [op |-> "blockchain_add", tx |-> tx, success |-> res.success]
    /\ EFrame
    /\ UNCHANGED <<chain, difficulty, tampers, varsR, varsA, varsW, varsO>>

NextAdd == add_transaction_any \/ service_mine_block

SpecAdd == InitL /\ [][NextAdd]_vars

\* mine_pending_transactions dropping the pending list when it fails
mine_pending_raises_cleared ==
    /\ pending_transactions # <<>>
    /\ pending_transactions' = <<>>
    /\ last' = [NoRequest("mine_block") EXCEPT !.code = "error"]
    /\ EFrame
    /\ UNCHANGED <<chain, difficulty, tampers, varsR, varsA, varsW, varsO>>

\* Blockchain.mine_pending_transactions when building or hashing the block raises, as
\* json.dumps does on a field it cannot serialise: the except branch logs and returns
\* None; the block was a local, the chain and the pending list are as before
mine_pending_raises ==
    /\ pending_transactions # <<>>
    /\ last' = [NoRequest("mine_block") EXCEPT !.code = "error"]
    /\ EFrame
    /\ UNCHANGED <<varsL, varsR, varsA, varsW, varsO>>

NextAccept == add_transaction_any \/ service_mine_block \/ mine_pending_raises

SpecAccept == InitL /\ [][NextAccept]_vars

Committed(blocks, id) ==
    \E i \in 1 .. Len(blocks) : \E j \in 1 .. Len(blocks[i].transactions) :
       blocks[i].transactions[j].transaction_id = id

\* C15: Blockchain.add_transaction returns false, leaving the pending buffer and the chain
\* unchanged, exactly when from_user, to_user or transaction_id is empty, or the amount is
\* not positive, or the id is in a committed block; otherwise it returns true and appends
\* the transaction once at the end of the pending buffer, leaving the chain unchanged.
C15_AddTransaction ==
    [][ last'.op = "blockchain_add" =>
          LET tx == last'.tx
              refused == \/ tx.from_user = "" \/ tx.to_user = "" \/ tx.transaction_id = 0
                         \/ tx.amount <= 0 \/ Committed(chain, tx.transaction_id)
          IN  /\ chain' = chain
              /\ IF refused
                   THEN ~ last'.success /\ pending_transactions' = pending_transactions
                   ELSE /\ last'.success
                        /\ pending_transactions' = Append(pending_transactions, tx) ]_vars

\* C15 witness: a transaction with every field filled was refused because its id is in a
\* committed block
C15_Witness ==
    /\ last.op = "blockchain_add" /\ ~ last.success
    /\ last.tx.from_user # "" /\ last.tx.to_user # "" /\ last.tx.amount > 0
    /\ last.tx.transaction_id # 0
    /\ Committed(chain, last.tx.transaction_id)

\* C16: mine_pending_transactions with an empty pending buffer returns none and changes
\* neither the chain nor the pending buffer; no block holding only a reward transaction
\* is ever appended.
C16_EmptyMineNoOp ==
    /\ [][ (last'.op = "mine_block" /\ pending_transactions = <<>>) =>
             /\ last'.code = "none"
             /\ chain' = chain
             /\ pending_transactions' = <<>> ]_vars
    /\ [] (\A i \in 2 .. Len(chain) :
             \E j \in 1 .. Len(chain[i].transactions) :
                chain[i].transactions[j].transaction_type # "mining_reward")

\* C16 witness: a mining call on an empty buffer, after a block had been mined
C16_Witness ==
    /\ last.op = "mine_block" /\ last.code = "none"
    /\ pending_transactions = <<>> /\ Len(chain) = 2

NextService == add_transaction_call \/ service_mine_block

SpecService == InitL /\ [][NextService]_vars

\* the ledger as the routers use it: through BlockchainService.add_transaction only
NextAuto == add_transaction_call

SpecAuto == InitL /\ [][NextAuto]_vars

RewardLast(txs) ==
    /\ txs[Len(txs)].transaction_type = "mining_reward"
    /\ \A j \in 1 .. Len(txs) - 1 : txs[j].transaction_type # "mining_reward"

\* C14: from an empty pending buffer, the first four accepted BlockchainService
\* add_transaction calls leave their transactions pending, and the fifth mines exactly
\* one block holding the five in acceptance order followed by exactly one mining_reward
\* transaction, leaving the buffer empty.
C14_MiningTrigger ==
    /\ [] (Len(pending_transactions) < AutoMineAt)
    /\ [][ (last'.op = "add_transaction" /\ last'.code = "accepted") =>
             LET tx == LedgerTx(last'.transaction_id, now) IN
             IF Len(pending_transactions) < AutoMineAt - 1
               THEN /\ pending_transactions' = Append(pending_transactions, tx)
                    /\ chain' = chain
               ELSE /\ Len(chain') = Len(chain) + 1
                    /\ SubSeq(chain', 1, Len(chain)) = chain
                    /\ SubSeq(chain'[Len(chain')].transactions, 1, AutoMineAt)
                         = Append(pending_transactions, tx)
                    /\ Len(chain'[Len(chain')].transactions) = AutoMineAt + 1
                    /\ RewardLast(chain'[Len(chain')].transactions)
                    /\ pending_transactions' = <<>> ]_vars

\* C14 witness: the fifth accepted call has just mined a block of five and a reward
C14_Witness ==
    /\ last.op = "add_transaction" /\ last.code = "accepted"
    /\ pending_transactions = <<>> /\ Len(chain) = 2
    /\ Len(chain[2].transactions) = AutoMineAt + 1
    /\ chain[2].transactions[2].transaction_id # chain[2].transactions[1].transaction_id


---------------------------------------------------------------------------
(* Part A: ai/service.py, class AnomalyDetectionService *)

\* the length the training rows are cut to, and of the zero vector of the fallback
FeatureCount == 23
\* settings.anomaly_threshold, in tenths
Threshold == 5
VeryLargeAmount == 5000
NewUserAmount == 1000
RapidSeconds == 300
RapidCount == 3

\* a transaction as the scorer receives it: the amount may be no number, the timestamp
\* may be missing (the current time is taken) or no ISO date
ScoredTx(amount, numeric, timestamp, hour) ==
    [amount |-> amount, numeric |-> numeric, timestamp |-> timestamp, hour |-> hour]

\* an entry of user_history; age is the time in seconds between it and the transaction
Past(amount, numeric, timestamp, age) ==
    [amount |-> amount, numeric |-> numeric, timestamp |-> timestamp, age |-> age]

Repeat(x, n) == [i \in 1 .. n |-> x]

\* extract_features: the vector, each feature given by the name of what it measures
TransactionFeatures == <<"amount", "log1p", "digits", "hour", "weekday">>

HistoryFeatures(user_history) ==
    IF user_history # <<>>
      THEN <<"count", "mean", "std", "median", "max", "min">>
           \o (IF \E i \in 1 .. Len(user_history) : user_history[i].timestamp = "valid"
                 THEN <<"mean_diff", "std_diff", "rapid_ratio">>
                 ELSE Repeat("0", 3))
      ELSE Repeat("0", 9)

VelocityFeatures ==
    <<"last_hour_count", "last_day_count", "last_hour_amount", "last_day_amount">>

\* what makes the body of extract_features raise: an amount that is no number, in the
\* transaction or in the history, or a timestamp of the transaction that does not parse
extraction_fails(transaction, user_history) ==
    \/ ~ transaction.numeric
    \/ transaction.timestamp = "malformed"
    \/ \E i \in 1 .. Len(user_history) : ~ user_history[i].numeric

extract_features(transaction, user_history) ==
    IF extraction_fails(transaction, user_history)
      THEN Repeat("0", FeatureCount)
      ELSE TransactionFeatures \o HistoryFeatures(user_history) \o VelocityFeatures

\* _train_with_basic_data: a row of the synthetic data, cut to FeatureCount
TrainingRow ==
    SubSeq(<<"amount", "log amount", "digits", "hour", "weekday", "tx count", "avg amount",
             "std amount", "median", "max amount", "min amount", "avg time diff",
             "std time diff", "rapid ratio", "last hour count", "last day count",
             "last hour amount", "last day amount", "0", "0", "0", "0", "0">>,
           1, FeatureCount)

\* the model after fit on the training rows
Fitted == [fitted |-> TRUE, n_features |-> Len(TrainingRow)]

\* _train_with_basic_data either fits the model or fails before the fit and logs it
Trainings == {"fitted", "failed"}

\* decision_function of a fitted model, in tenths: below zero the point is an outlier
Decisions == {-2, 1, 4}

\* the model refuses a vector: it is not fitted, or was fitted on another number of features
model_rejects(m, features) == ~ m.fitted \/ Len(features) # m.n_features

\* the rule checks raise: the amount cannot be compared, or a timestamp does not parse
rules_fail(transaction, user_history) ==
    \/ ~ transaction.numeric
    \/ transaction.timestamp = "malformed"
    \/ \E i \in 1 .. Len(user_history) : user_history[i].timestamp # "valid"

\* any exception inside the try block of check_transaction_anomaly
analysis_fails(transaction, user_history, m) ==
    \/ model_rejects(m, extract_features(transaction, user_history))
    \/ rules_fail(transaction, user_history)

\* the except branch of check_transaction_anomaly
analysis_error ==
    [anomaly_score |-> 0, is_anomalous |-> FALSE, risk_factors |-> <<"analysis_error">>,
     model_prediction |-> "error"]

\* the model's score turned round and clamped: higher is more suspicious
normalized_score(d) == IF 5 - d < 0 THEN 0 ELSE IF 5 - d > 10 THEN 10 ELSE 5 - d

\* the rapid-transactions rule firing from three recent entries on
rapid_transactions_from_three(user_history) ==
    /\ Len(user_history) > 0
    /\ Cardinality({i \in 1 .. Len(user_history) : user_history[i].age < RapidSeconds})
         >= RapidCount

\* the rapid-transactions rule: more than three entries less than 300 s old
rapid_transactions(user_history) ==
    /\ Len(user_history) > 0
    /\ Cardinality({i \in 1 .. Len(user_history) : user_history[i].age < RapidSeconds})
         > RapidCount

\* the score and the tags when nothing raises, the score left without its cap
scored_uncapped(transaction, user_history, d) ==
    LET is_outlier == d < 0
        large  == transaction.amount > VeryLargeAmount
        fresh  == Len(user_history) = 0 /\ transaction.amount > NewUserAmount
        night  == transaction.hour < 6 \/ transaction.hour > 23
        rapid  == rapid_transactions(user_history)
        score  == normalized_score(d) + (IF large THEN 2 ELSE 0) + (IF fresh THEN 3 ELSE 0)
                  + (IF night THEN 1 ELSE 0) + (IF rapid THEN 2 ELSE 0)
    IN  [anomaly_score |-> score,
         is_anomalous |-> score > Threshold \/ is_outlier,
         risk_factors |-> (IF large THEN <<"large_amount">> ELSE <<>>)
                          \o (IF fresh THEN <<"new_user_large_amount">> ELSE <<>>)
                          \o (IF night THEN <<"unusual_time">> ELSE <<>>)
                          \o (IF rapid THEN <<"rapid_transactions">> ELSE <<>>),
         model_prediction |-> IF is_outlier THEN "outlier" ELSE "normal"]

\* the score and the tags when nothing raises
scored(transaction, user_history, d) ==
    LET is_outlier == d < 0
        large  == transaction.amount > VeryLargeAmount
        fresh  == Len(user_history) = 0 /\ transaction.amount > NewUserAmount
        night  == transaction.hour < 6 \/ transaction.hour > 23
        rapid  == rapid_transactions(user_history)
        score  == normalized_score(d) + (IF large THEN 2 ELSE 0) + (IF fresh THEN 3 ELSE 0)
                  + (IF night THEN 1 ELSE 0) + (IF rapid THEN 2 ELSE 0)
        capped == Min(10, score)
    IN  [anomaly_score |-> capped,
         is_anomalous |-> capped > Threshold \/ is_outlier,
         risk_factors |-> (IF large THEN <<"large_amount">> ELSE <<>>)
                          \o (IF fresh THEN <<"new_user_large_amount">> ELSE <<>>)
                          \o (IF night THEN <<"unusual_time">> ELSE <<>>)
                          \o (IF rapid THEN <<"rapid_transactions">> ELSE <<>>),
         model_prediction |-> IF is_outlier THEN "outlier" ELSE "normal"]

\* check_transaction_anomaly training the model on every call
anomaly_check_always_trains(transaction, user_history, trained, m, training, d) ==
    LET fit == training = "fitted"
        m1  == IF fit THEN Fitted ELSE m
    IN  [is_trained |-> trained \/ fit,
         model |-> m1,
         training |-> training,
         result |-> IF analysis_fails(transaction, user_history, m1)
                      THEN analysis_error
                      ELSE scored(transaction, user_history, d)]

\* check_transaction_anomaly: the result, the service's state after the call, and
\* what became of _train_with_basic_data ("none" when it was not called)
anomaly_check(transaction, user_history, trained, m, training, d) ==
    LET fit == ~ trained /\ training = "fitted"
        m1  == IF fit THEN Fitted ELSE m
    IN  [is_trained |-> trained \/ fit,
         model |-> m1,
         training |-> IF trained THEN "none" ELSE training,
         result |-> IF analysis_fails(transaction, user_history, m1)
                      THEN analysis_error
                      ELSE scored(transaction, user_history, d)]

\* the calls made to the scorer
ScoredAmounts == {100, 2000, 6000}

Transactions ==
    { ScoredTx(a, TRUE, ts, h) : a \in ScoredAmounts, ts \in {"valid", "missing"},
                                 h \in Hours }
    \cup { ScoredTx(a, TRUE, "malformed", 12) : a \in ScoredAmounts }
    \cup { ScoredTx(0, FALSE, "valid", 12) }

Histories ==
    { <<>>,
      <<Past(50, TRUE, "valid", 7200)>>,
      Repeat(Past(50, TRUE, "malformed", 0), 2),
      Repeat(Past(50, TRUE, "valid", 60), RapidCount + 1),
      Repeat(Past(0, FALSE, "valid", 60), RapidCount + 1),
      Repeat(Past(0, FALSE, "valid", 60), RapidCount),
      <<Past(0, FALSE, "valid", 7200)>>,
      <<Past(50, TRUE, "valid", 7200), Past(0, FALSE, "malformed", 60)>> }

\* a caller uses anomaly_service.check_transaction_anomaly directly
check_transaction_anomaly_call ==
    /\ \E transaction \in Transactions, user_history \in Histories,
          training \in Trainings, d \in Decisions :
         LET r == anomaly_check(transaction, user_history, is_trained, model, training, d)
         IN  /\ is_trained' = r.is_trained
             /\ model' = r.model
             /\ last' = [op |-> "check", transaction |-> transaction,
                         user_history |-> user_history,
                         features |-> extract_features(transaction, user_history),
                         decision |-> d, training |-> r.training, result |-> r.result]
    /\ EFrame
    /\ UNCHANGED <<varsL, users_collection, fingerprints_collection,
                   transactions_collection, using_motor, call, issued, started, base, group>>
    /\ UNCHANGED <<varsW, varsO>>

\* the service alone, as the module creates it
InitScorer ==
    /\ NoEnhanced
    /\ NoLedger
    /\ NoRouter
    /\ now = 0

NextScorer == check_transaction_anomaly_call

SpecScorer == InitScorer /\ [][NextScorer]_vars

---------------------------------------------------------------------------
(* Part R: the steps of process_p2p_payment *)

\* Depends(get_current_user): the request arrives and the sender's document is read
get_current_user(s) ==
    /\ ~ InFlight(s)
    /\ started < MaxRequests
    /\ s = 2 => InFlight(1)
    /\ using_motor \/ \A o \in Slots : ~ InFlight(o)
    /\ \E user \in Senders, to \in Payees, amount \in PayAmounts, ok \in Storage :
         LET c == [IdleCall EXCEPT !.sender_user_id = user, !.to_user = to,
                                   !.amount = amount]
         IN  call' = [call EXCEPT ![s] =
                        IF ok THEN [c EXCEPT !.pc = "fingerprint",
                                             !.sender_balance = users_collection[user].balance]
                        ELSE [c EXCEPT !.pc = "done", !.status = "error"]]
    /\ started' = started + 1
    /\ IF \E o \in Slots : InFlight(o)
         THEN group' = group + 1 /\ base' = base
         ELSE group' = 1 /\ base' = Balances(users_collection)
    /\ UNCHANGED <<users_collection, fingerprints_collection, transactions_collection,
                   using_motor, issued>>
    /\ RLedgerFrame

\* steps 1 and 2: fingerprint lookup, authentication, balance validation
find_fingerprint(s) ==
    /\ call[s].pc = "fingerprint"
    /\ \E ok \in Storage, is_authenticated \in BOOLEAN :
         call' =
           IF ~ ok THEN End(s, "error")
           ELSE IF call[s].sender_user_id \notin fingerprints_collection
             THEN End(s, "not_enrolled")
           ELSE IF ~ is_authenticated
             THEN [End(s, "auth_failed") EXCEPT ![s].is_authenticated = "no"]
           ELSE IF call[s].sender_balance < call[s].amount
             THEN [End(s, "insufficient_funds") EXCEPT ![s].is_authenticated = "yes"]
           ELSE [call EXCEPT ![s].pc = "recipient", ![s].is_authenticated = "yes"]
    /\ UNCHANGED <<users_collection, fingerprints_collection, transactions_collection,
                   using_motor, issued, started, base, group>>
    /\ RLedgerFrame

\* step 3: recipient lookup, then the transaction id
find_recipient(s) ==
    /\ call[s].pc = "recipient"
    /\ \E ok \in Storage :
         IF ~ ok THEN call' = End(s, "error") /\ issued' = issued
         ELSE IF call[s].to_user \notin DOMAIN users_collection
           THEN call' = End(s, "recipient_not_found") /\ issued' = issued
         ELSE /\ call' = [call EXCEPT ![s].pc = "screen",
                            ![s].recipient_balance = users_collection[call[s].to_user].balance,
                            ![s].transaction_id = issued + 1]
              /\ issued' = issued + 1
    /\ UNCHANGED <<users_collection, fingerprints_collection, transactions_collection,
                   using_motor, started, base, group>>
    /\ RLedgerFrame

\* the history handed to the scorer: the records the sender is part of; the mock
\* collection matches no record against the $or filter
sender_history(user_id) ==
    IF using_motor
      THEN LET found == SelectSeq(transactions_collection,
                                  LAMBDA tx : tx.from_user = user_id \/ tx.to_user = user_id)
           IN  [i \in 1 .. Len(found) |-> Past(found[i].amount, TRUE, "valid", 0)]
      ELSE <<>>

\* step 4: history read and anomaly_service.check_transaction_anomaly
check_transaction_anomaly(s) ==
    /\ call[s].pc = "screen"
    /\ \E ok \in Storage, training \in Trainings, d \in Decisions, hour \in Hours :
         LET r == anomaly_check(ScoredTx(call[s].amount, TRUE, "valid", hour),
                                sender_history(call[s].sender_user_id),
                                is_trained, model, training, d)
         IN  IF ~ ok
               THEN /\ call' = End(s, "error")
                    /\ UNCHANGED varsA
               ELSE /\ call' = IF r.result.is_anomalous
                                 THEN [call EXCEPT ![s].pc = "flag", ![s].is_anomalous = "yes"]
                                 ELSE [call EXCEPT ![s].pc = "debit", ![s].is_anomalous = "no"]
                    /\ is_trained' = r.is_trained
                    /\ model' = r.model
    /\ UNCHANGED <<users_collection, fingerprints_collection, transactions_collection,
                   using_motor, issued, started, base, group>>
    /\ UNCHANGED <<varsE, varsL, varsW, varsO>>

\* the fraud branch: the flagged record is inserted and the request ends. No request of
\* the router gets here: its transaction and history are well formed, so the vector has
\* fewer features than the model was fitted on and the scorer answers analysis_error.
insert_flagged(s) ==
    /\ call[s].pc = "flag"
    /\ \E ok \in Storage :
         IF ok
           THEN /\ transactions_collection' =
                     Append(transactions_collection, P2PRecord(call[s], "flagged", FALSE))
                /\ call' = End(s, "flagged")
           ELSE /\ transactions_collection' = transactions_collection
                /\ call' = End(s, "error")
    /\ UNCHANGED <<users_collection, fingerprints_collection, using_motor, issued,
                   started, base, group>>
    /\ RLedgerFrame

\* step 5, first write: the sender's balance becomes the balance read minus the amount
update_sender(s) ==
    /\ call[s].pc = "debit"
    /\ \E ok \in Storage :
         IF ok
           THEN /\ users_collection' =
                     update_one(users_collection, call[s].sender_user_id,
                                call[s].sender_balance - call[s].amount, TRUE)
                /\ call' = [call EXCEPT ![s].pc = "credit", ![s].debited = TRUE]
           ELSE /\ users_collection' = users_collection
                /\ call' = End(s, "error")
    /\ UNCHANGED <<fingerprints_collection, transactions_collection, using_motor, issued,
                   started, base, group>>
    /\ RLedgerFrame

\* step 5, second write: the recipient's balance becomes the balance read plus the amount
update_recipient(s) ==
    /\ call[s].pc = "credit"
    /\ \E ok \in Storage :
         IF ok
           THEN /\ users_collection' =
                     update_one(users_collection, call[s].to_user,
                                call[s].recipient_balance + call[s].amount, FALSE)
                /\ call' = [call EXCEPT ![s].pc = "record", ![s].credited = TRUE]
           ELSE /\ users_collection' = users_collection
                /\ call' = End(s, "error")
    /\ UNCHANGED <<fingerprints_collection, transactions_collection, using_motor, issued,
                   started, base, group>>
    /\ RLedgerFrame

\* steps 6 and 7: the ledger entry, then the completed record
finalize(s) ==
    /\ call[s].pc = "record"
    /\ LET c == call[s]
           tx == [from_user |-> c.sender_user_id, to_user |-> c.to_user,
                  amount |-> c.amount, transaction_type |-> "p2p", timestamp |-> now,
                  transaction_id |-> c.transaction_id]
           res == service_add_transaction(chain, pending_transactions, difficulty, tx, now)
       IN  /\ chain' = res.chain
           /\ pending_transactions' = res.pending
           /\ \E ok \in Storage :
                IF ok
                  THEN /\ transactions_collection' =
                            Append(transactions_collection,
                                   P2PRecord(c, "completed", res.success))
                       /\ call' = End(s, "success")
                  ELSE /\ transactions_collection' = transactions_collection
                       /\ call' = End(s, "error")
    /\ UNCHANGED <<users_collection, fingerprints_collection, using_motor, issued,
                   started, base, group>>
    /\ UNCHANGED <<varsE, difficulty, tampers, varsA, varsW, varsO>>

\* the main application with three registered users, two of them enrolled, after earlier
\* payments have left them with 100, 30 and 20
InitR ==
    /\ NoEnhanced
    /\ now = 0
    /\ difficulty = 1
    /\ chain = <<GenesisBlock(now)>>
    /\ pending_transactions = <<>>
    /\ tampers = 0
    /\ users_collection = (UserA :> UserDoc(100)) @@ (UserB :> UserDoc(30))
                          @@ (UserC :> UserDoc(20))
    /\ fingerprints_collection = {UserA, UserB}
    /\ transactions_collection = <<>>
    /\ using_motor \in BOOLEAN
    /\ call = [s \in Slots |-> IdleCall]
    /\ issued = 0
    /\ started = 0
    /\ base = Balances(users_collection)
    /\ group = 0
    /\ is_trained = FALSE
    /\ model = Unfitted

NextR ==
    \/ \E s \in Slots : get_current_user(s)
    \/ \E s \in Slots : find_fingerprint(s)
    \/ \E s \in Slots : find_recipient(s)
    \/ \E s \in Slots : check_transaction_anomaly(s)
    \/ \E s \in Slots : update_sender(s)
    \/ \E s \in Slots : update_recipient(s)
    \/ \E s \in Slots : finalize(s)

SpecRouter == InitR /\ [][NextR]_vars

---------------------------------------------------------------------------
(* Part M: process_p2p_payment with the proof-of-work search of Blockchain.mine_block *)
(* taken one turn of its loop at a time.  The handlers are coroutines of one event    *)
(* loop, mine_block is a plain loop without an await, and BlockchainService.mine_block *)
(* awaits nothing, so no other handler runs between the start and the end of a search. *)

\* the block Blockchain.mine_pending_transactions hands to mine_block
candidate_block(blocks, pending, t) ==
    LET reward == [from_user |-> "system", to_user |-> "system", amount |-> MiningReward,
                   transaction_type |-> "mining_reward", timestamp |-> t,
                   transaction_id |-> -(t + 1)]
    IN  [index |-> Len(blocks), timestamp |-> t, transactions |-> pending \o <<reward>>,
         previous_hash |-> blocks[Len(blocks)].hash, nonce |-> 0, hash |-> EmptyHash]

\* the event loop is not inside a handler that has yet to reach an await
loop_free == search.pc = "idle"

\* step 6 up to the search: Blockchain.add_transaction, and at five pending the
\* candidate block; below five pending the request goes on to step 7
add_transaction_begin(s) ==
    /\ call[s].pc = "record"
    /\ LET c == call[s]
           tx == [from_user |-> c.sender_user_id, to_user |-> c.to_user,
                  amount |-> c.amount, transaction_type |-> "p2p", timestamp |-> now,
                  transaction_id |-> c.transaction_id]
           res == blockchain_add(chain, pending_transactions, tx)
       IN  /\ pending_transactions' = res.pending
           /\ IF res.success /\ Len(res.pending) >= AutoMineAt
                THEN /\ search' = [pc |-> "searching", slot |-> s,
                                   block |-> candidate_block(chain, res.pending, now)]
                     /\ call' = [call EXCEPT ![s].pc = "mining"]
                     /\ transactions_collection' = transactions_collection
                ELSE /\ search' = search
                     /\ \E ok \in Storage :
                          IF ok
                            THEN /\ transactions_collection' =
                                      Append(transactions_collection,
                                             P2PRecord(c, "completed", res.success))
                                 /\ call' = End(s, "success")
                            ELSE /\ transactions_collection' = transactions_collection
                                 /\ call' = End(s, "error")
    /\ UNCHANGED <<users_collection, fingerprints_collection, using_motor, issued,
                   started, base, group>>
    /\ UNCHANGED <<varsE, chain, difficulty, tampers, varsA, varsW, varsT, varsH>>

\* Blockchain.mine_block, one turn of its loop: the next nonce and its hash
mine_block_turn ==
    /\ search.pc = "searching"
    /\ ~ HasPrefix(search.block.hash, difficulty)
    /\ LET next == [search.block EXCEPT !.nonce = @ + 1]
       IN  search' = [search EXCEPT !.block = [next EXCEPT !.hash = calculate_hash(next)]]
    /\ UNCHANGED <<varsE, varsL, varsR, varsA, varsW, varsT, varsH>>

\* the loop ends: the block is appended, the pending list emptied, and the request
\* that asked for the ledger entry goes on to step 7
mine_block_return ==
    /\ search.pc = "searching"
    /\ HasPrefix(search.block.hash, difficulty)
    /\ chain' = Append(chain, search.block)
    /\ pending_transactions' = <<>>
    /\ search' = NoSearch
    /\ \E ok \in Storage :
         IF ok
           THEN /\ transactions_collection' =
                     Append(transactions_collection,
                            P2PRecord(call[search.slot], "completed", TRUE))
                /\ call' = End(search.slot, "success")
           ELSE /\ transactions_collection' = transactions_collection
                /\ call' = End(search.slot, "error")
    /\ UNCHANGED <<users_collection, fingerprints_collection, using_motor, issued,
                   started, base, group>>
    /\ UNCHANGED <<varsE, difficulty, tampers, varsA, varsW, varsT, varsH>>

\* the request in slot s takes its next step when the event loop gets to it
payment_step(s) ==
    /\ loop_free
    /\ \/ get_current_user(s)
       \/ find_fingerprint(s)
       \/ find_recipient(s)
       \/ check_transaction_anomaly(s)
       \/ update_sender(s)
       \/ update_recipient(s)
       \/ add_transaction_begin(s)

\* an earlier payment of the main application, as the ledger and the collection hold it
Earlier(id) ==
    [transaction_id |-> id, from_user |-> UserC, to_user |-> UserA, amount |-> 40,
     transaction_type |-> "p2p"]

\* the main application over Motor after four payments: one short of a block
InitMining ==
    /\ NoEnhanced
    /\ now = 0
    /\ difficulty = 1
    /\ chain = <<GenesisBlock(now)>>
    /\ pending_transactions = [id \in 1 .. AutoMineAt - 1 |-> Earlier(id) @@ [timestamp |-> 0]]
    /\ tampers = 0
    /\ users_collection = (UserA :> UserDoc(100)) @@ (UserB :> UserDoc(30))
                          @@ (UserC :> UserDoc(20))
    /\ fingerprints_collection = {UserA, UserB}
    /\ transactions_collection =
         [id \in 1 .. AutoMineAt - 1 |->
            Earlier(id) @@ [status |-> "completed", is_flagged |-> FALSE,
                            blockchain_recorded |-> TRUE]]
    /\ using_motor = TRUE
    /\ call = [s \in Slots |-> IdleCall]
    /\ issued = AutoMineAt - 1
    /\ started = 0
    /\ base = Balances(users_collection)
    /\ group = 0
    /\ is_trained = FALSE
    /\ model = Unfitted

NextMining ==
    \/ \E s \in Slots : payment_step(s)
    \/ mine_block_turn
    \/ mine_block_return

SpecMining == InitMining /\ [][NextMining]_vars

---------------------------------------------------------------------------
(* Part T: realtime.py.  Each client is a websocket_transactions handler of main.py,  *)
(* each broadcast the call a payment makes after its record is stored.  A task takes  *)
(* the lock when it is free; the body of connect and of disconnect has no await, so   *)
(* taking the lock, the change and the release are one step, while broadcast keeps    *)
(* the lock over the awaits of its sends.                                             *)

\* async with self.lock: the lock can be taken
lock_free == lock = 0

\* RealtimeManager.connect, await ws.accept(): the handshake succeeds, or raises and
\* ends the handler before its try block
accept(ws) ==
    /\ clients[ws] = "new"
    /\ \E accepted \in BOOLEAN :
         clients' = [clients EXCEPT ![ws] = IF accepted THEN "accepted" ELSE "closed"]
    /\ UNCHANGED <<connections, lock, casts>>
    /\ UNCHANGED <<varsE, varsL, varsR, varsA, varsW, varsM, varsH>>

\* RealtimeManager.connect under the lock: the socket is appended
connect(ws) ==
    /\ clients[ws] = "accepted"
    /\ lock_free
    /\ connections' = Append(connections, ws)
    /\ clients' = [clients EXCEPT ![ws] = "open"]
    /\ UNCHANGED <<lock, casts>>
    /\ UNCHANGED <<varsE, varsL, varsR, varsA, varsW, varsM, varsH>>

\* websocket_transactions: receive_text raises, the handler goes on to its finally
receive_text(ws) ==
    /\ clients[ws] = "open"
    /\ clients' = [clients EXCEPT ![ws] = "closing"]
    /\ UNCHANGED <<connections, lock, casts>>
    /\ UNCHANGED <<varsE, varsL, varsR, varsA, varsW, varsM, varsH>>

\* RealtimeManager.disconnect without waiting for the lock
disconnect_unlocked(ws) ==
    /\ clients[ws] = "closing"
    /\ connections' = IF InList(connections, ws) THEN remove(connections, ws)
                      ELSE connections
    /\ clients' = [clients EXCEPT ![ws] = "closed"]
    /\ UNCHANGED <<lock, casts>>
    /\ UNCHANGED <<varsE, varsL, varsR, varsA, varsW, varsM, varsH>>

\* RealtimeManager.disconnect under the lock: the socket is removed if it is listed
disconnect(ws) ==
    /\ clients[ws] = "closing"
    /\ lock_free
    /\ connections' = IF InList(connections, ws) THEN remove(connections, ws)
                      ELSE connections
    /\ clients' = [clients EXCEPT ![ws] = "closed"]
    /\ UNCHANGED <<lock, casts>>
    /\ UNCHANGED <<varsE, varsL, varsR, varsA, varsW, varsM, varsH>>

\* RealtimeManager.broadcast takes the lock and starts its loop over self.connections
broadcast_enter(b) ==
    /\ casts[b].pc = "idle"
    /\ lock_free
    /\ lock' = b
    /\ casts' = [casts EXCEPT ![b] = [pc |-> "sending", next |-> 1, to_remove |-> <<>>,
                                      before |-> connections]]
    /\ UNCHANGED <<connections, clients>>
    /\ UNCHANGED <<varsE, varsL, varsR, varsA, varsW, varsM, varsH>>

\* one turn of the loop: await ws.send_text, and on an exception the socket is noted
broadcast_send(b) ==
    /\ casts[b].pc = "sending"
    /\ casts[b].next <= Len(connections)
    /\ \E sent \in BOOLEAN :
         casts' = [casts EXCEPT ![b].next = @ + 1,
                                ![b].to_remove = IF sent THEN @
                                                 ELSE Append(@, connections[casts[b].next])]
    /\ UNCHANGED <<connections, lock, clients>>
    /\ UNCHANGED <<varsE, varsL, varsR, varsA, varsW, varsM, varsH>>

\* the loop is over: the noted sockets that are listed are removed, the lock released
broadcast_leave(b) ==
    /\ casts[b].pc = "sending"
    /\ casts[b].next > Len(connections)
    /\ connections' = SelectSeq(connections, LAMBDA ws : ~ InList(casts[b].to_remove, ws))
    /\ lock' = 0
    /\ casts' = [casts EXCEPT ![b].pc = "returned"]
    /\ UNCHANGED clients
    /\ UNCHANGED <<varsE, varsL, varsR, varsA, varsW, varsM, varsH>>

\* RealtimeManager.__init__, before any client or payment
InitRealtime ==
    /\ NoEnhanced
    /\ NoLedger
    /\ NoRouter
    /\ now = 0

NextRealtime ==
    \/ \E ws \in 1 .. MaxSockets : accept(ws)
    \/ \E ws \in 1 .. MaxSockets : connect(ws)
    \/ \E ws \in 1 .. MaxSockets : receive_text(ws)
    \/ \E ws \in 1 .. MaxSockets : disconnect(ws)
    \/ \E b \in Slots : broadcast_enter(b)
    \/ \E b \in Slots : broadcast_send(b)
    \/ \E b \in Slots : broadcast_leave(b)

SpecRealtime == InitRealtime /\ [][NextRealtime]_vars

---------------------------------------------------------------------------
(* Part H: merchant/router.py over the mock storage, one request at a time.  Both     *)
(* handlers run their body in a try block whose only handler is except Exception,     *)
(* which answers 500; an HTTPException raised in the body is an Exception.            *)

MerchantIds == <<"merchant_1", "merchant_2", "merchant_3", "merchant_4">>
Emails == {"shop@example.com", "cafe@example.com"}
CaptureAmounts == {20, 40, 200}

\* generate_merchant_id: a fresh id (uuid4) with the prefix merchant_
generate_merchant_id(merchants) == MerchantIds[Cardinality(DOMAIN merchants) + 1]

\* user_id.startswith("merchant_")
is_merchant_id(id) == \E i \in 1 .. Len(MerchantIds) : MerchantIds[i] = id

MerchantDoc(email) == [email |-> email, balance |-> 0, total_transactions |-> 0]

\* what the client gets when the body of the try block raises HTTPException(code)
raised_in_try(code) == 500

\* register_merchant
register_merchant ==
    /\ started < MaxMerchantRequests
    /\ started' = started + 1
    /\ \E email \in Emails, enrolled \in BOOLEAN :
         LET existing_merchant ==
               \E m \in DOMAIN merchants_collection : merchants_collection[m].email = email
             merchant_id == generate_merchant_id(merchants_collection)
             Answer(status_code) ==
               [op |-> "register_merchant", email |-> email, existing |-> existing_merchant,
                status_code |-> status_code]
         IN  IF existing_merchant
               THEN /\ last' = Answer(raised_in_try(409))
                    /\ UNCHANGED <<merchants_collection, fingerprints_collection>>
             ELSE IF ~ enrolled
               THEN /\ last' = Answer(500)
                    /\ UNCHANGED <<merchants_collection, fingerprints_collection>>
             ELSE /\ last' = Answer(200)
                  /\ merchants_collection' =
                       Put(merchants_collection, merchant_id, MerchantDoc(email))
                  /\ fingerprints_collection' = fingerprints_collection \cup {merchant_id}
    /\ EFrame
    /\ UNCHANGED <<users_collection, transactions_collection, using_motor, call, issued,
                   base, group>>
    /\ UNCHANGED <<varsL, varsA, varsW, varsM, varsT>>

\* capture_customer_fingerprint by a registered merchant; the fingerprint matches the
\* template of one enrolled user or of none
capture_customer_fingerprint ==
    /\ started < MaxMerchantRequests
    /\ started' = started + 1
    /\ \E current_merchant \in DOMAIN merchants_collection, amount \in CaptureAmounts,
          match \in { id \in fingerprints_collection : ~ is_merchant_id(id) } \cup {"none"} :
         LET user_found == IF match \in DOMAIN users_collection THEN match ELSE "none"
             transaction_id == issued + 1
             Answer(status_code, success) ==
               [op |-> "capture_customer_fingerprint", user_found |-> user_found,
                amount |-> amount, status_code |-> status_code, success |-> success]
             res == service_add_transaction(
                      chain, pending_transactions, difficulty,
                      [from_user |-> user_found, to_user |-> current_merchant,
                       amount |-> amount, transaction_type |-> "merchant",
                       timestamp |-> now, transaction_id |-> transaction_id], now)
         IN  IF user_found = "none"
               THEN /\ last' = Answer(raised_in_try(404), FALSE)
                    /\ UNCHANGED <<users_collection, merchants_collection,
                                   transactions_collection, issued, chain,
                                   pending_transactions>>
             ELSE IF users_collection[user_found].balance < amount
               THEN /\ last' = Answer(200, FALSE)
                    /\ UNCHANGED <<users_collection, merchants_collection,
                                   transactions_collection, issued, chain,
                                   pending_transactions>>
             ELSE /\ last' = Answer(200, TRUE)
                  /\ issued' = issued + 1
                  /\ users_collection' =
                       update_one(users_collection, user_found,
                                  users_collection[user_found].balance - amount, FALSE)
                  /\ merchants_collection' =
                       update_one(merchants_collection, current_merchant,
                                  merchants_collection[current_merchant].balance + amount,
                                  TRUE)
                  /\ transactions_collection' =
                       Append(transactions_collection,
                              [transaction_id |-> transaction_id, from_user |-> user_found,
                               to_user |-> "", merchant_id |-> current_merchant,
                               amount |-> amount, transaction_type |-> "merchant",
                               status |-> "completed"])
                  /\ chain' = res.chain
                  /\ pending_transactions' = res.pending
    /\ EFrame
    /\ UNCHANGED <<fingerprints_collection, using_motor, call, base, group>>
    /\ UNCHANGED <<difficulty, tampers, varsA, varsW, varsM, varsT>>

\* the main application over the mock storage with three users, two of them enrolled,
\* and one registered merchant
InitMerchants ==
    /\ users_db = Empty
    /\ fingerprints_db = Empty
    /\ transactions_db = <<>>
    /\ blockchain_db = <<>>
    /\ nonce_cache = Empty
    /\ idempotency_cache = Empty
    /\ last = NoRequest("start")
    /\ nonceLog = Empty
    /\ firstTx = Empty
    /\ screened = Empty
    /\ NoSockets
    /\ search = NoSearch
    /\ connections = <<>>
    /\ lock = 0
    /\ clients = [ws \in 1 .. MaxSockets |-> "new"]
    /\ casts = [b \in Slots |-> NoCast]
    /\ merchants_collection = (MerchantIds[1] :> MerchantDoc("shop@example.com"))
    /\ now = 0
    /\ difficulty = 1
    /\ chain = <<GenesisBlock(now)>>
    /\ pending_transactions = <<>>
    /\ tampers = 0
    /\ users_collection = (UserA :> UserDoc(100)) @@ (UserB :> UserDoc(30))
                          @@ (UserC :> UserDoc(20))
    /\ fingerprints_collection = {UserA, UserB, MerchantIds[1]}
    /\ transactions_collection = <<>>
    /\ using_motor = FALSE
    /\ call = [s \in Slots |-> IdleCall]
    /\ issued = 0
    /\ started = 0
    /\ base = Balances(users_collection)
    /\ group = 0
    /\ is_trained = FALSE
    /\ model = Unfitted

NextMerchants == register_merchant \/ capture_customer_fingerprint

SpecMerchants == InitMerchants /\ [][NextMerchants]_vars

---------------------------------------------------------------------------
(* Part R: the claims *)

Quiet == \A s \in Slots : ~ InFlight(s)

\* C8: when a payment request has ended, whatever its outcome, the sender's debit and the
\* recipient's credit have both been applied or neither has.
C8_AtomicMutation ==
    \A s \in Slots : call[s].pc = "done" => (call[s].debited <=> call[s].credited)

\* the values an input of a request may take when the request is run again
Known(x) == IF x = "unknown" THEN BOOLEAN ELSE {x = "yes"}

\* the balances process_p2p_payment leaves when request c runs alone on balances bal
SerialRun(bal, c, is_authenticated, is_anomalous) ==
    IF \/ c.sender_user_id \notin fingerprints_collection
       \/ ~ is_authenticated
       \/ bal[c.sender_user_id] < c.amount
       \/ c.to_user \notin DOMAIN bal
       \/ is_anomalous
      THEN bal
      ELSE [[bal EXCEPT ![c.sender_user_id] = bal[c.sender_user_id] - c.amount]
                 EXCEPT ![c.to_user] = bal[c.to_user] + c.amount]

SerialRuns(bal, c) ==
    { SerialRun(bal, c, a, f) : a \in Known(c.is_authenticated), f \in Known(c.is_anomalous) }

SerialOrders(bal, c1, c2) ==
    UNION { SerialRuns(b, c2) : b \in SerialRuns(bal, c1) }
    \cup UNION { SerialRuns(b, c1) : b \in SerialRuns(bal, c2) }

Touches(c) == {c.sender_user_id, c.to_user}

\* C9: when two overlapping requests that touch a common account, each from a user to
\* another user, have both ended without a storage error, the stored balances are those
\* of one of the two serial orders of the two requests.
C9_Serializable ==
    (/\ Quiet /\ group = 2
     /\ call[1].status # "error" /\ call[2].status # "error"
     /\ \A s \in Slots : call[s].sender_user_id # call[s].to_user
     /\ Touches(call[1]) \cap Touches(call[2]) # {})
    => Balances(users_collection) \in SerialOrders(base, call[1], call[2])

---------------------------------------------------------------------------
(* Both applications: main_enhanced.py is started without the blockchain    *)
(* service, the main application builds its chain when it is imported.      *)

EnhancedRuns == chain = <<>>

InitPayments == InitE \/ InitR

NextPayments == (EnhancedRuns /\ NextE) \/ (~ EnhancedRuns /\ NextR)

SpecPayments == InitPayments /\ [][NextPayments]_vars

\* C5: a successful transfer of A from S to a different user R, not overlapped by another
\* request, leaves S with the balance it had before the request minus A, R with its
\* balance plus A, and every other balance as it was; for p2p_payment and for
\* process_p2p_payment.
C5_FundsConserved ==
    /\ [][ (last'.op = "p2p" /\ last'.code = "OK" /\ NewTx.to_user # Sender) =>
             Balances(users_db') =
               [Balances(users_db) EXCEPT ![Sender] = @ - NewTx.amount,
                                          ![NewTx.to_user] = @ + NewTx.amount] ]_vars
    /\ [] ( (/\ call[1].pc = "done" /\ call[1].status = "success" /\ group = 1
             /\ call[1].sender_user_id # call[1].to_user)
            => Balances(users_collection) =
                 [base EXCEPT ![call[1].sender_user_id] = @ - call[1].amount,
                              ![call[1].to_user] = @ + call[1].amount] )

\* C5 witness: process_p2p_payment has moved 40 from user_a to user_b over Motor
C5_Witness ==
    /\ using_motor /\ group = 1
    /\ call[1].pc = "done" /\ call[1].status = "success"
    /\ call[1].sender_user_id = UserA /\ call[1].to_user = UserB
    /\ users_collection[UserA].balance = base[UserA] - 40
    /\ users_collection[UserB].balance = base[UserB] + 40

HardStopDeclines == {"error", "not_enrolled", "auth_failed", "insufficient_funds"}

Short(c) == c.pc # "idle" /\ c.sender_balance < c.amount

\* C6: a request of a hard-stop sender for more than the balance it read is declined, for
\* insufficient funds once it reaches the funds check, and changes no balance and no
\* ledger; no hard-stop sender's stored balance is ever negative.
C6_HardStop ==
    /\ [] (\A u \in DOMAIN users_db :
              ~ users_db[u].credit_mode => users_db[u].balance >= 0)
    /\ [] (\A u \in DOMAIN users_collection : users_collection[u].balance >= 0)
    /\ [][ /\ (last'.op = "p2p" /\ last'.code # "OK")
              => (users_db' = users_db /\ blockchain_db' = blockchain_db)
           /\ (/\ FundsChecked
               /\ ~ users_db[Sender].credit_mode
               /\ NewTx.amount > users_db[Sender].balance)
              => /\ last'.code = "INSUFFICIENT_FUNDS"
                 /\ NewTx.status = "declined_funds" ]_vars
    /\ [] (\A s \in Slots : Short(call[s]) =>
              /\ call[s].pc \in {"fingerprint", "done"}
              /\ call[s].pc = "done" => call[s].status \in HardStopDeclines
              /\ call[s].is_authenticated = "yes" /\ call[s].pc = "done"
                   => call[s].status = "insufficient_funds")
    /\ [][ \A s \in Slots : (call'[s] # call[s] /\ Short(call'[s])) =>
              UNCHANGED <<users_collection, transactions_collection, chain,
                          pending_transactions>> ]_vars

\* C6 witness: the hard-stop sender holding 50 was declined a transfer of 100
C6_Witness ==
    /\ last.op = "p2p" /\ last.code = "INSUFFICIENT_FUNDS"
    /\ ~ users_db[Sender].credit_mode /\ users_db[Sender].balance = 50
    /\ transactions_db[Len(transactions_db)].amount = 100
    /\ blockchain_db = <<>>

---------------------------------------------------------------------------
(* The fraud decline *)

\* C17: a request declined for fraud appends exactly one record, of status
\* declined_risk, changes no balance, adds no block, and its response carries the
\* fraud score that the record holds.
C17_FraudDecline ==
    [][ (last'.op = "p2p" /\ last'.code = "FRAUD_DETECTED") =>
          /\ Len(transactions_db') = Len(transactions_db) + 1
          /\ SubSeq(transactions_db', 1, Len(transactions_db)) = transactions_db
          /\ transactions_db'[Len(transactions_db')].status = "declined_risk"
          /\ users_db' = users_db
          /\ blockchain_db' = blockchain_db
          /\ last'.fraud_score = transactions_db'[Len(transactions_db')].ai_fraud_score ]_vars

---------------------------------------------------------------------------
(* Part A: the claims *)

Tagged(result, tag) ==
    \E i \in 1 .. Len(result.risk_factors) : result.risk_factors[i] = tag

\* C18: for a transfer of 2000 by a sender with an empty history the scorer's result
\* holds the tags new_user_large_amount and large_amount, its score is above the
\* threshold and the transaction is reported anomalous.
C18_NewUserLargeAmount ==
    ( /\ last.op = "check"
      /\ last.transaction.numeric /\ last.transaction.amount = 2000
      /\ last.transaction.timestamp # "malformed"
      /\ last.user_history = <<>> )
    => /\ Tagged(last.result, "new_user_large_amount")
       /\ Tagged(last.result, "large_amount")
       /\ last.result.anomaly_score > Threshold
       /\ last.result.is_anomalous

\* C19: the vector extract_features returns has, on every path, the number of
\* features the model is fitted on by _train_with_basic_data.
C19_FeatureDimension ==
    last.op = "check" => Len(last.features) = Len(TrainingRow)

\* C20: when the analysis fails inside (the features cannot be extracted, the model
\* is not fitted or refuses the vector, a timestamp does not parse) the result has
\* score 0, is not anomalous and its only tag is analysis_error.
C20_AnalysisError ==
    ( /\ last.op = "check"
      /\ \/ extraction_fails(last.transaction, last.user_history)
         \/ model_rejects(model, last.features)
         \/ last.transaction.timestamp = "malformed"
         \/ \E i \in 1 .. Len(last.user_history) :
               last.user_history[i].timestamp # "valid" )
    => last.result = analysis_error

\* C21: the score of every result lies between 0 and 1 (here 0 and 10 tenths), and
\* the result is anomalous exactly when that score is above the threshold or the
\* result reports the model's outlier flag.
C21_ScoreRange ==
    last.op = "check" =>
      /\ last.result.anomaly_score \in 0 .. 10
      /\ last.result.is_anomalous <=>
            (last.result.anomaly_score > Threshold
             \/ last.result.model_prediction = "outlier")

\* rule increments that pass 1 were added to the score of a scored result
C21_Witness ==
    /\ last.op = "check" /\ last.result.model_prediction = "outlier"
    /\ last.result.anomaly_score = 10
    /\ Tagged(last.result, "large_amount") /\ Tagged(last.result, "rapid_transactions")
    /\ Tagged(last.result, "unusual_time")

Recent(user_history) ==
    {i \in 1 .. Len(user_history) : user_history[i].age < RapidSeconds}

Increment(result, tag, tenths) == IF Tagged(result, tag) THEN tenths ELSE 0

C23_LazyBootstrap ==
    /\ [][ /\ (last'.op = "check" /\ last'.training # "none")
                => (~ is_trained /\ ~ model.fitted)
           /\ is_trained => (is_trained' /\ model' = model)
           /\ (last'.op = "check" /\ last'.training = "fitted")
                => (is_trained' /\ model'.fitted) ]_vars
    /\ [] (is_trained <=> model.fitted)
    /\ [] ((last.op = "check" /\ last.result.model_prediction # "error")
              => (is_trained /\ model.fitted))

\* a call that found the model trained by an earlier call and got a score from it
C23_Witness ==
    /\ last.op = "check" /\ last.training = "none"
    /\ is_trained /\ model.fitted
    /\ last.result.model_prediction # "error"

---------------------------------------------------------------------------
(* The order of the stages of a request *)

\* C24: fraud screening comes before the funds check: a request that the funds check
\* has declined was authenticated and was screened before.
C24_StageOrder ==
    \A s \in Slots :
      call[s].status = "insufficient_funds" =>
        (call[s].is_authenticated = "yes" /\ call[s].is_anomalous = "no")

\* C25: authentication comes before the recipient check: a request whose sample does
\* not match the sender's stored template is declined as an authentication failure
\* whether or not the recipient exists, and only a request whose sample matched is told
\* that the recipient was not found.
C25_AuthFirst ==
    [][ (last'.op = "p2p" /\ last'.code \notin {"ALREADY_PROCESSED", "INVALID_NONCE"}) =>
          LET matched == /\ Sender \in DOMAIN fingerprints_db
                         /\ verify_fingerprint(fingerprints_db[Sender],
                                               last'.fingerprint_data)
          IN  /\ ~ matched => last'.code = "AUTH_FAILED"
              /\ last'.code = "RECIPIENT_NOT_FOUND" => matched ]_vars

---------------------------------------------------------------------------
(* The ledger and the events of a payment *)

\* C26: a transaction record says blockchain_recorded only if the ledger holds an
\* entry for its transaction id; a payment whose ledger append failed is recorded
\* with blockchain_recorded false.
C26_LedgerDegrades ==
    \A i \in 1 .. Len(transactions_db) :
      transactions_db[i].blockchain_recorded =>
        \E j \in 1 .. Len(blockchain_db) :
          blockchain_db[j].transaction.transaction_id = transactions_db[i].transaction_id

\* C27: publishing the completion event is never fatal: no committed payment ends
\* with an exception raised out of its broadcast.
C27_PublishNeverFatal ==
    \A s \in Slots : broadcast[s].pc # "raised"

---------------------------------------------------------------------------
(* Part R and Part E: what a successful payment leaves in the ledger *)

\* C28: when a payment request has returned success, the ledger holds the
\* transaction in a block whose hash has the configured prefix of zeros.
C28_HappyPath ==
    \A s \in Slots :
      call[s].status = "success" =>
        \E i \in 2 .. Len(chain) :
          /\ HasPrefix(chain[i].hash, difficulty)
          /\ \E j \in 1 .. Len(chain[i].transactions) :
                chain[i].transactions[j].transaction_id = call[s].transaction_id

---------------------------------------------------------------------------
(* Part W: concurrent requests and the nonce *)

\* C29: of two requests in flight at once that present the same nonce under different
\* idempotency keys at most one passes the nonce check: a request that reaches the
\* nonce check while a request with its nonce awaits its broadcast gets INVALID_NONCE,
\* and no two requests in flight have both passed with one nonce.
C29_AtomicNonce ==
    /\ [][ \A s, t \in Slots :
             ( /\ s # t
               /\ broadcast'[s] # broadcast[s]
               /\ last'.op = "p2p" /\ last'.code # "ALREADY_PROCESSED"
               /\ broadcast[t].pc = "sending"
               /\ broadcast[t].nonce = last'.nonce
               /\ broadcast[t].key # last'.key )
             => (last'.code = "INVALID_NONCE" /\ broadcast'[s].pc = "declined") ]_vars
    /\ [] (\A s, t \in Slots :
             ( /\ s # t
               /\ broadcast[s].pc = "sending" /\ broadcast[t].pc = "sending" )
             => broadcast[s].nonce # broadcast[t].nonce)

\* while a payment awaits its broadcast, a second request with the same nonce and
\* another key has been rejected; and two payments can await at once
C29_Witness ==
    /\ broadcast[1].pc = "sending" /\ broadcast[2].pc = "declined"
    /\ broadcast[2].code = "INVALID_NONCE"
    /\ broadcast[2].nonce = broadcast[1].nonce
    /\ broadcast[2].key # broadcast[1].key
    /\ broadcast[1].nonce \in DOMAIN nonceLog

\* C30: every nonce that get_nonce has put into the store is eventually absent from
\* it once its TTL has elapsed, whether or not a request ever presents it.
C30_NonceExpires ==
    \A n \in 1 .. MaxNonces :
      (n \in DOMAIN nonce_cache /\ now - nonce_cache[n] > NonceTTL)
        ~> (n \notin DOMAIN nonce_cache)


\* C31: while the proof-of-work search started by one request is running, another
\* request in flight on accounts the first does not touch can take its next step.
C31_MiningDoesNotBlock ==
    \A s \in Slots :
      (/\ search.pc = "searching" /\ search.slot # s
       /\ InFlight(s)
       /\ Touches(call[s]) \cap Touches(call[search.slot]) = {})
      => ENABLED payment_step(s)

\* the sum of the balances bal
RECURSIVE TotalOver(_, _)
TotalOver(bal, ids) ==
    IF ids = {} THEN 0
    ELSE LET id == CHOOSE x \in ids : TRUE IN bal[id] + TotalOver(bal, ids \ {id})

Total(bal) == TotalOver(bal, DOMAIN bal)

\* C32: when a payment request that no other request overlapped has ended without a
\* storage error, the stored balances add up to what they added up to when it began;
\* this includes a request whose recipient is its sender, which leaves the balance as
\* it was.
C32_TotalConserved ==
    (Quiet /\ group = 1 /\ call[1].status # "error")
    => Total(Balances(users_collection)) = Total(base)

\* C36: a call with a well-formed transaction and a history that holds an entry whose
\* timestamp does not parse, made once the model is fitted and with a vector of the
\* length the model was fitted on, is scored from the rules, so that an amount above
\* the large-amount threshold is tagged large_amount, and is not answered by the
\* analysis_error fallback.
C36_MalformedSkipped ==
    (/\ last.op = "check"
     /\ last.transaction.numeric /\ last.transaction.timestamp # "malformed"
     /\ \E i \in 1 .. Len(last.user_history) : last.user_history[i].timestamp = "malformed"
     /\ is_trained /\ ~ model_rejects(model, last.features))
    => /\ last.result # analysis_error
       /\ last.transaction.amount > VeryLargeAmount => Tagged(last.result, "large_amount")

\* the positions of the transactions of the chain that are no mining reward
Entries(blocks) ==
    UNION { { <<i, j>> : j \in { k \in 1 .. Len(blocks[i].transactions) :
                                  blocks[i].transactions[k].transaction_type
                                    # "mining_reward" } } :
            i \in 1 .. Len(blocks) }

\* C33: no two transactions of the chain other than mining rewards, in one block or in
\* two, have the same transaction_id.
C33_UniqueIds ==
    \A p \in Entries(chain), q \in Entries(chain) :
      chain[p[1]].transactions[p[2]].transaction_id
        = chain[q[1]].transactions[q[2]].transaction_id => p = q

\* the transactions the ledger holds: in pending, in a block
InPending(pending) == { pending[j] : j \in 1 .. Len(pending) }

InBlocks(blocks) ==
    UNION { { blocks[i].transactions[j] : j \in 1 .. Len(blocks[i].transactions) } :
            i \in 1 .. Len(blocks) }

\* C34: a transaction for which add_transaction returns true is in the pending list;
\* a transaction that is in the pending list or in a block stays in one of them over
\* every later call, a mining attempt that fails included; and no transaction is in
\* the pending list and in a block at the same time.
C34_NothingLost ==
    /\ [] (InPending(pending_transactions) \cap InBlocks(chain) = {})
    /\ [][ (last'.op = "blockchain_add" /\ last'.success)
             => last'.tx \in InPending(pending_transactions') ]_vars
    /\ [][ InPending(pending_transactions) \cup InBlocks(chain)
             \subseteq InPending(pending_transactions') \cup InBlocks(chain') ]_vars

\* C34 witness: a mining attempt has failed while a block was already committed, and
\* the transaction that was pending is still pending
C34_Witness ==
    /\ last.op = "mine_block" /\ last.code = "error"
    /\ Len(chain) > 1
    /\ pending_transactions # <<>>

RecordsOf(tx_id) ==
    { i \in 1 .. Len(transactions_db) : transactions_db[i].transaction_id = tx_id }

\* C37: every transaction id stored in idempotency_cache is the id of exactly one
\* record of transactions_db and that record is confirmed; a key that has a mapping
\* keeps it unchanged; and a request that is declined leaves idempotency_cache as it was.
C37_IdempotencyMapping ==
    /\ [] (\A k \in DOMAIN idempotency_cache :
             /\ Cardinality(RecordsOf(idempotency_cache[k])) = 1
             /\ \A i \in RecordsOf(idempotency_cache[k]) :
                  transactions_db[i].status = "confirmed")
    /\ [][ \A k \in DOMAIN idempotency_cache :
             k \in DOMAIN idempotency_cache' /\ idempotency_cache'[k] = idempotency_cache[k] ]_vars
    /\ [][ (last'.op = "p2p" /\ last'.code \notin {"OK", "ALREADY_PROCESSED"})
             => idempotency_cache' = idempotency_cache ]_vars

\* C37 witness: a key has its mapping, and a later request, declined after its record
\* was appended, has left the mapping alone
C37_Witness ==
    /\ idempotency_cache # Empty
    /\ last.op = "p2p"
    /\ last.code \in {"INSUFFICIENT_FUNDS", "CREDIT_LIMIT_EXCEEDED", "FRAUD_DETECTED"}
    /\ \E i \in 1 .. Len(transactions_db) : transactions_db[i].status # "confirmed"

\* C38: a broadcast that returns leaves the connections it found when it took the
\* lock, in their order, without exactly those whose send failed during it; while a
\* broadcast holds the lock, no connect and no disconnect changes the connections or
\* completes; and a disconnect of a socket that is not listed leaves the connections
\* as they were.
C38_SubscriberSet ==
    /\ [][ \A b \in Slots :
             (casts[b].pc = "sending" /\ casts'[b].pc = "returned")
             => connections' = SelectSeq(casts[b].before,
                                         LAMBDA ws : ~ InList(casts[b].to_remove, ws)) ]_vars
    /\ [][ \A b \in Slots :
             (casts[b].pc = "sending" /\ casts'[b].pc = "sending")
             => /\ connections' = connections
                /\ \A ws \in 1 .. MaxSockets :
                     clients'[ws] # clients[ws] => clients[ws] \in {"new", "open"} ]_vars
    /\ [][ \A ws \in 1 .. MaxSockets :
             (clients[ws] = "closing" /\ clients'[ws] = "closed"
              /\ ~ InList(connections, ws))
             => connections' = connections ]_vars

\* C38 witness: a broadcast has returned after a failed send, another connection is
\* still listed, and the handler of the removed one has since run its disconnect
C38_Witness ==
    \E b \in Slots :
      /\ casts[b].pc = "returned"
      /\ Len(casts[b].to_remove) = 1
      /\ Len(casts[b].before) = 2
      /\ Len(connections) = 1
      /\ clients[casts[b].to_remove[1]] = "closed"

\* the stored documents the merchant endpoints can touch
MerchantStores ==
    <<users_collection, merchants_collection, fingerprints_collection,
      transactions_collection, chain, pending_transactions>>

\* C39: register_merchant with an email that is already registered answers 409, and
\* capture_customer_fingerprint that finds no user for the fingerprint answers 404; in
\* both cases no user, merchant, fingerprint or transaction document and no ledger
\* entry is created or changed.
C39_MerchantErrors ==
    /\ [][ (last'.op = "register_merchant" /\ last'.existing)
             => /\ last'.status_code = 409
                /\ UNCHANGED MerchantStores ]_vars
    /\ [][ (last'.op = "capture_customer_fingerprint" /\ last'.user_found = "none")
             => /\ last'.status_code = 404
                /\ UNCHANGED MerchantStores ]_vars

=============================================================================
